---------------------------- MODULE Spec2Model ----------------------------
(***************************************************************************)
(* Operational data plane of the conversational-agent backend:             *)
(*   - RedisClient (backend/clients/redis_client.py): key/value cache,     *)
(*     conversation snapshot cache, fixed-window rate limiter;             *)
(*   - rate_limit_middleware, the chat handler and the delete-conversation *)
(*     endpoint (backend/main.py);                                         *)
(*   - ElasticsearchClient (backend/clients/elasticsearch_client.py).      *)
(*                                                                         *)
(* Strings are sequences of tokens, so that key formatting is real         *)
(* concatenation.  An optional value (Python's Optional[T]) is a sequence  *)
(* of length 0 (None) or 1 (the value).                                    *)
(***************************************************************************)
EXTENDS Integers, Sequences, FiniteSets, TLC

\* ------------------------------------------------------------------------
\* Bounds of the model
\* ------------------------------------------------------------------------
MaxTime == 90
TickSecs == 30
MaxOver == 2
MaxKvTime == 3
MaxCacheTime == 900
CacheTickSecs == 300
MaxTTL == 2
MaxMsgs == 4
MaxConvs == 1
MaxCachedConvs == 2
MaxBatch == 2
MaxDocs == 2
MaxSearchConvs == 1
MaxTitled == 2
SmallRpm == 2
SmallBurst == 1

\* ------------------------------------------------------------------------
\* Program constants
\* ------------------------------------------------------------------------
DefaultRateLimitRpm == 60
DefaultRateLimitBurst == 10
DefaultTtlConversations == 600
DefaultSuggestSize == 5
WindowSecs == 60
NoExpiry == -1

None == <<>>
Some(v) == <<v>>

VARIABLES
    now,                \* wall clock, whole seconds (time.time())
    redis,              \* the Redis keyspace: key -> [val, exp]
    rate_limit_rpm,     \* RedisClient.rate_limit_rpm
    rate_limit_burst,   \* RedisClient.rate_limit_burst
    ttl_conversations,  \* RedisClient.ttl_conversations
    ret,                \* what the last call returned to its caller
    window,             \* history: calls of the current rate window
    written,            \* history: the last write of each generic key
    invalidated,        \* history: conversations invalidated since cached
    db_conversations,   \* primary store: ids of the rows of conversations
    db_messages,        \* primary store: rows of messages
    next_conv_id,       \* primary store: next id of conversations
    next_msg_id,        \* primary store: next id of messages
    es_messages,        \* search index: messages, document id -> source
    es_conversations,   \* search index: conversations, document id -> source
    searchable_messages,      \* messages index as of its last refresh
    searchable_conversations, \* conversations index as of its last refresh
    req                 \* the requests in flight: position and locals

redisVars == <<now, redis, rate_limit_rpm, rate_limit_burst, ttl_conversations,
               ret, window, written, invalidated>>

viewVars == <<searchable_messages, searchable_conversations>>

storeVars == <<db_conversations, db_messages, next_conv_id, next_msg_id,
               es_messages, es_conversations, viewVars>>

chatVars == <<storeVars, req>>

vars == <<redisVars, chatVars>>

\* ------------------------------------------------------------------------
\* The Redis server, as the client's commands see it
\* ------------------------------------------------------------------------
Entry(v, e) == [val |-> v, exp |-> e]

\* Redis drops a key once its expiry time is reached.
Purge(s, t) ==
    [k \in {j \in DOMAIN s : s[j].exp = NoExpiry \/ t < s[j].exp} |-> s[k]]

Put(s, k, e) == [j \in DOMAIN s \cup {k} |-> IF j = k THEN e ELSE s[j]]

Drop(s, k) == [j \in DOMAIN s \ {k} |-> s[j]]

RedisGET(s, k) == IF k \in DOMAIN s THEN Some(s[k].val) ELSE None

RedisSET(s, k, v) == Put(s, k, Entry(v, NoExpiry))

RedisSETEX(s, k, ttl, v, t) == Put(s, k, Entry(v, t + ttl))

RedisDEL(s, k) == Drop(s, k)

RedisEXISTS(s, k) == k \in DOMAIN s

\* An increment that is not atomic: the value of a key that exists is read
\* and written back as it was.
RedisINCRNotAtomic(s, k) ==
    IF k \in DOMAIN s THEN s ELSE Put(s, k, Entry(1, NoExpiry))

\* INCR creates the key at 1 without expiry, and keeps the expiry of a key
\* that exists.
RedisINCR(s, k) ==
    IF k \in DOMAIN s THEN Put(s, k, Entry(s[k].val + 1, s[k].exp))
    ELSE Put(s, k, Entry(1, NoExpiry))

RedisEXPIRE(s, k, ttl, t) ==
    IF k \in DOMAIN s THEN Put(s, k, Entry(s[k].val, t + ttl)) ELSE s

\* ------------------------------------------------------------------------
\* RedisClient: generic cache operations.  `ok` is whether the transport to
\* the store works for this call; a call that fails never reached the store.
\* Each operator yields the store after the call, the value returned and
\* whether an exception left the method.
\* ------------------------------------------------------------------------
Result(s, v, r) == [store |-> s, value |-> v, raised |-> r]

get(s, key, ok) ==
    IF ok THEN Result(s, RedisGET(s, key), FALSE)
    ELSE Result(s, None, FALSE)

\* `if ttl:` takes the SETEX branch for a ttl that is neither None nor 0.
set(s, key, value, ttl, t, ok) ==
    IF ~ok THEN Result(s, FALSE, FALSE)
    ELSE IF ttl # None /\ ttl[1] # 0
         THEN Result(RedisSETEX(s, key, ttl[1], value, t), TRUE, FALSE)
         ELSE Result(RedisSET(s, key, value), TRUE, FALSE)

\* A delete without its try/except: the transport error leaves the method.
DeleteUnguarded(s, key, ok) ==
    IF ok THEN Result(RedisDEL(s, key), RedisEXISTS(s, key), FALSE)
    ELSE Result(s, FALSE, TRUE)

delete(s, key, ok) ==
    IF ok THEN Result(RedisDEL(s, key), RedisEXISTS(s, key), FALSE)
    ELSE Result(s, FALSE, FALSE)

exists(s, key, ok) ==
    IF ok THEN Result(s, RedisEXISTS(s, key), FALSE)
    ELSE Result(s, FALSE, FALSE)


\* ------------------------------------------------------------------------
\* RedisClient: rate limiting
\* ------------------------------------------------------------------------
Max(a, b) == IF a >= b THEN a ELSE b

\* A key that leaves the minute bucket out.
RateKeyNoBucket(identifier, endpoint, minute) ==
    <<"rate", ":">> \o identifier \o <<":">> \o endpoint

\* A key that leaves the endpoint out.
RateKeyNoEndpoint(identifier, endpoint, minute) ==
    <<"rate", ":">> \o identifier \o <<":", ToString(minute)>>

\* key = f"rate:{identifier}:{endpoint}:{current_minute}"
RateKey(identifier, endpoint, minute) ==
    <<"rate", ":">> \o identifier \o <<":">> \o endpoint
        \o <<":", ToString(minute)>>

\* current_minute = int(time.time() // 60)
CurrentMinute(t) == t \div WindowSecs

\* An admission test that is off by one.
AllowedStrict(count, limit) == count < limit

\* allowed = current_count <= limit
Allowed(count, limit) == count <= limit

\* A remaining quota that is not clamped at 0.
RemainingUnclamped(count, limit) == limit - count

\* remaining = max(0, limit - current_count)
Remaining(count, limit) == Max(0, limit - count)

\* An except branch that fails closed.
RateLimitFailClosed(rpm) == [allowed |-> FALSE, remaining |-> 0]

\* The except branch: fail open.
RateLimitFailOpen(rpm) == [allowed |-> TRUE, remaining |-> rpm]

\* `fail` names the store call of this invocation that fails: "incr", "expire"
\* or "none".  EXPIRE is only issued when the incremented value is 1.
\* `count` is current_count when the increment was done, `failed` whether
\* the except branch ran.
check_rate_limit(s, identifier, endpoint, t, rpm, burst, fail) ==
    LET key == RateKey(identifier, endpoint, CurrentMinute(t))
        s1 == RedisINCR(s, key)
        current_count == s1[key].val
        limit == rpm + burst
    IN  IF fail = "incr"
        THEN [store |-> s, value |-> RateLimitFailOpen(rpm), raised |-> FALSE,
              count |-> None, failed |-> TRUE]
        ELSE IF current_count = 1 /\ fail = "expire"
        THEN [store |-> s1, value |-> RateLimitFailOpen(rpm), raised |-> FALSE,
              count |-> Some(current_count), failed |-> TRUE]
        ELSE [store |-> IF current_count = 1
                        THEN RedisEXPIRE(s1, key, WindowSecs, t) ELSE s1,
              value |-> [allowed |-> Allowed(current_count, limit),
                         remaining |-> Remaining(current_count, limit)],
              raised |-> FALSE,
              count |-> Some(current_count), failed |-> FALSE]

\* ------------------------------------------------------------------------
\* main.py: rate_limit_middleware
\* ------------------------------------------------------------------------
Clients == {<<"c1">>}
RatedPaths == {<<"/chat">>}
\* A middleware that lets the chat path through as well.
ExemptPathsAndChat == {<<"/">>, <<"/health">>, <<"/api/health">>, <<"/chat">>}

ExemptPaths == {<<"/">>, <<"/health">>, <<"/api/health">>}
Paths == RatedPaths \cup {<<"/health">>}
AllPaths == RatedPaths \cup {<<"/">>, <<"/health">>, <<"/api/health">>}
FailPoints == {"none", "incr", "expire"}
Pairs == Clients \X RatedPaths

\* 60 - (int(time.time()) % 60)
ResetIn(t) == WindowSecs - (t % WindowSecs)

RateHeaders(rpm, remaining, t) ==
    [limit |-> rpm, remaining |-> remaining, reset |-> ResetIn(t)]

\* History of the pair's current window: the number of check_rate_limit calls
\* issued in it while every store call succeeded (clean).
NoteCall(w, minute, failed) ==
    LET cur == IF w.minute = minute THEN w
               ELSE [minute |-> minute, calls |-> 0, clean |-> TRUE]
    IN  IF failed \/ ~cur.clean
        THEN [minute |-> minute, calls |-> 0, clean |-> FALSE]
        ELSE [cur EXCEPT !.calls = @ + 1]

\* get_rate_limit_info with an INCR in the place of its GET.
GetRateLimitInfoCounting(s, identifier, endpoint, t, rpm, burst, ok) ==
    LET key == RateKey(identifier, endpoint, CurrentMinute(t))
        s1 == RedisINCR(s, key)
        limit == rpm + burst
    IN  IF ok
        THEN Result(s1, [limit |-> limit,
                         remaining |-> Max(0, limit - s1[key].val),
                         used |-> s1[key].val,
                         reset_in_seconds |-> ResetIn(t)], FALSE)
        ELSE Result(s, [limit |-> rpm, remaining |-> rpm, used |-> 0,
                        reset_in_seconds |-> WindowSecs], FALSE)

\* current_count = int(self.client.get(key) or 0)
get_rate_limit_info(s, identifier, endpoint, t, rpm, burst, ok) ==
    LET key == RateKey(identifier, endpoint, CurrentMinute(t))
        cached == RedisGET(s, key)
        current_count == IF cached = None THEN 0 ELSE cached[1]
        limit == rpm + burst
    IN  IF ok
        THEN Result(s, [limit |-> limit,
                        remaining |-> Max(0, limit - current_count),
                        used |-> current_count,
                        reset_in_seconds |-> ResetIn(t)], FALSE)
        ELSE Result(s, [limit |-> rpm, remaining |-> rpm, used |-> 0,
                        reset_in_seconds |-> WindowSecs], FALSE)

CountOf(s, key) == IF key \in DOMAIN s THEN s[key].val ELSE 0

rate_limit_middleware(client_id, path, fail) ==
    IF path \in ExemptPaths
    THEN /\ fail = "none"
         /\ ret' = [op |-> "rate_limit_middleware", client |-> client_id,
                    path |-> path, exempt |-> TRUE,
                    status |-> 200, handler_ran |-> TRUE,
                    media_type |-> "downstream"]
         /\ UNCHANGED <<redis, window>>
    ELSE LET r == check_rate_limit(redis, client_id, path, now,
                                   rate_limit_rpm, rate_limit_burst, fail)
             key == RateKey(client_id, path, CurrentMinute(now))
         IN  /\ CountOf(redis, key) < rate_limit_rpm + rate_limit_burst + MaxOver
             /\ redis' = r.store
             /\ window' = [window EXCEPT ![<<client_id, path>>] =
                              NoteCall(@, CurrentMinute(now), r.failed)]
             /\ ret' = [op |-> "rate_limit_middleware", client |-> client_id,
                        path |-> path, at |-> now, exempt |-> FALSE,
                        status |-> IF r.value.allowed THEN 200 ELSE 429,
                        handler_ran |-> r.value.allowed,
                        media_type |-> IF r.value.allowed THEN "downstream"
                                       ELSE "application/json",
                        headers |-> RateHeaders(rate_limit_rpm,
                                       IF r.value.allowed
                                       THEN r.value.remaining ELSE 0, now),
                        allowed |-> r.value.allowed,
                        remaining |-> r.value.remaining,
                        raised |-> r.raised,
                        count |-> r.count, failed |-> r.failed]

RateLimitMiddleware ==
    /\ \E c \in Clients, p \in Paths, f \in FailPoints :
           rate_limit_middleware(c, p, f)
    /\ UNCHANGED <<now, rate_limit_rpm, rate_limit_burst, ttl_conversations,
                   written, invalidated, chatVars>>

\* The middleware over every path, the three exempt ones included.
RateLimitMiddlewareAnyPath ==
    /\ \E c \in Clients, p \in AllPaths, f \in FailPoints :
           rate_limit_middleware(c, p, f)
    /\ UNCHANGED <<now, rate_limit_rpm, rate_limit_burst, ttl_conversations,
                   written, invalidated, chatVars>>

GetRateLimitInfo ==
    /\ \E c \in Clients, p \in RatedPaths, ok \in BOOLEAN :
           LET r == get_rate_limit_info(redis, c, p, now, rate_limit_rpm,
                                        rate_limit_burst, ok)
           IN  /\ redis' = r.store
               /\ ret' = [op |-> "get_rate_limit_info", client |-> c,
                          path |-> p, at |-> now, value |-> r.value,
                          raised |-> r.raised, failed |-> ~ok]
    /\ UNCHANGED <<now, rate_limit_rpm, rate_limit_burst, ttl_conversations,
                   window, written, invalidated, chatVars>>

\* The clock advances; keys whose expiry is reached are gone.
Tick(d, maxTime) ==
    /\ now + d <= maxTime
    /\ now' = now + d
    /\ redis' = Purge(redis, now + d)
    /\ UNCHANGED <<rate_limit_rpm, rate_limit_burst, ttl_conversations, ret,
                   window, written, invalidated, chatVars>>

TickRate == Tick(TickSecs, MaxTime)

\* RedisClient.__init__ with the environment's defaults.
InitRedis ==
    /\ now = 0
    /\ redis = <<>>
    /\ rate_limit_rpm = DefaultRateLimitRpm
    /\ rate_limit_burst = DefaultRateLimitBurst
    /\ ttl_conversations = DefaultTtlConversations
    /\ ret = [op |-> "init"]
    /\ window = [p \in Pairs |-> [minute |-> 0, calls |-> 0, clean |-> TRUE]]
    /\ written = <<>>
    /\ invalidated = {}

\* The stores as init_db and ElasticsearchClient.__init__ leave them: no rows,
\* no documents, no request in flight.
Slots == {1, 2}

IdleRequest ==
    [pc |-> "idle", kind |-> "none", conversation_id |-> 0, cached |-> None,
     message_records |-> <<>>, user_id |-> 0, assistant_id |-> 0,
     committed |-> FALSE,
     invalidated |-> FALSE, invalidate_ok |-> FALSE, created |-> 0,
     es_failed |-> FALSE, status |-> 0]

InitStores ==
    /\ db_conversations = {}
    /\ db_messages = {}
    /\ next_conv_id = 1
    /\ next_msg_id = 1
    /\ es_messages = <<>>
    /\ es_conversations = <<>>
    /\ searchable_messages = <<>>
    /\ searchable_conversations = <<>>
    /\ req = [r \in Slots |-> IdleRequest]

InitRate == InitRedis /\ InitStores

NextRate == RateLimitMiddleware \/ TickRate

SpecRate == InitRate /\ [][NextRate]_vars

\* The limiter with its status query.
\* RedisClient.__init__ with RATE_LIMIT_RPM and RATE_LIMIT_BURST set in the
\* environment.
InitSmallLimit ==
    /\ now = 0
    /\ redis = <<>>
    /\ rate_limit_rpm = SmallRpm
    /\ rate_limit_burst = SmallBurst
    /\ ttl_conversations = DefaultTtlConversations
    /\ ret = [op |-> "init"]
    /\ window = [p \in Pairs |-> [minute |-> 0, calls |-> 0, clean |-> TRUE]]
    /\ written = <<>>
    /\ invalidated = {}

InitInfo == InitSmallLimit /\ InitStores

NextInfo == RateLimitMiddlewareAnyPath \/ GetRateLimitInfo \/ TickRate

SpecInfo == InitInfo /\ [][NextInfo]_vars

Limit == rate_limit_rpm + rate_limit_burst

RatedCall == ret.op = "rate_limit_middleware" /\ ~ret.exempt

RetWindow == window[<<ret.client, ret.path>>]

\* The call that ret records is the RetWindow.calls-th of its window, and
\* every store call of the window so far succeeded.
CleanCall ==
    /\ RatedCall
    /\ RetWindow.clean
    /\ RetWindow.minute = CurrentMinute(ret.at)


\* ------------------------------------------------------------------------
\* Rate limiter: properties (under SpecRate)
\* ------------------------------------------------------------------------

\* C1: with the store reachable, the Nth check_rate_limit call of a pair
\* within one minute window is allowed iff N <= rate_limit_rpm +
\* rate_limit_burst; in particular call number limit + 1 is denied.
C1_NthAllowedIffWithinLimit ==
    CleanCall =>
        /\ ret.allowed <=> (RetWindow.calls <= Limit)
        /\ (RetWindow.calls = Limit + 1 => ~ret.allowed /\ ret.status = 429)

C1_Witness ==
    /\ CleanCall
    /\ RetWindow.calls = Limit + 1
    /\ ~ret.allowed

\* C2: fail open.  A check_rate_limit call one of whose store calls fails
\* returns (True, rate_limit_rpm) and raises nothing, and the middleware
\* does not answer 429, whatever the counter of the window is.
C2_FailOpen ==
    (RatedCall /\ ret.failed) =>
        /\ ret.allowed
        /\ ret.remaining = rate_limit_rpm
        /\ ~ret.raised
        /\ ret.status # 429
        /\ ret.handler_ran

\* A failing call in a window whose counter is already past the limit.
C2_Witness ==
    /\ RatedCall
    /\ ret.failed
    /\ CountOf(redis, RateKey(ret.client, ret.path, CurrentMinute(ret.at)))
           > Limit

\* C3: the counter starts again in every minute bucket.  Whatever the
\* traffic of the minute before, the first check_rate_limit of a minute
\* (its store calls succeeding) observes the post-increment counter 1, is
\* allowed and reports remaining = limit - 1.
C3_WindowReset ==
    (CleanCall /\ RetWindow.calls = 1) =>
        /\ ret.count = Some(1)
        /\ ret.allowed
        /\ ret.remaining = Limit - 1

\* The first call of minute M+1 while the key of minute M still holds a
\* counter past the limit (requests were denied in minute M).
C3_Witness ==
    /\ CleanCall
    /\ RetWindow.calls = 1
    /\ CurrentMinute(ret.at) >= 1
    /\ ret.count = Some(1)
    /\ CountOf(redis, RateKey(ret.client, ret.path, CurrentMinute(ret.at) - 1))
           > Limit

\* C4: with the store reachable, remaining = max(0, limit - counter): never
\* negative, one less with every allowed request of a window, and 0 on
\* every denied request (defaults: calls 1..70 allowed, 71 onward denied
\* with remaining 0).
C4_Remaining ==
    /\ (RatedCall /\ ~ret.failed) =>
           /\ ret.remaining >= 0
           /\ ret.remaining = Max(0, Limit - ret.count[1])
           /\ (~ret.allowed => ret.remaining = 0 /\ ret.headers.remaining = 0)
    /\ CleanCall =>
           /\ ret.count = Some(RetWindow.calls)
           /\ (ret.allowed => ret.remaining = Limit - RetWindow.calls)
           /\ (rate_limit_rpm = 60 /\ rate_limit_burst = 10 =>
                   /\ (RetWindow.calls <= 70 => ret.allowed)
                   /\ (RetWindow.calls >= 71 =>
                           ~ret.allowed /\ ret.remaining = 0))

\* The last allowed request of a window: the 70th, with nothing remaining.
C4_Witness ==
    /\ CleanCall
    /\ ret.allowed
    /\ ret.remaining = 0
    /\ RetWindow.calls = Limit


\* ------------------------------------------------------------------------
\* check_rate_limit called by several processes at once: one action per
\* command sent to the store.  req[r] holds the position and the locals of
\* process r; window is the history of the calls that began and returned
\* within one minute bucket with the store reachable.
\* ------------------------------------------------------------------------
CheckKey(r) == RateKey(req[r].identifier, req[r].endpoint, req[r].minute)

ChecksBeforeIncr ==
    {r \in Slots : req[r].kind = "check_rate_limit" /\ req[r].pc = "incr"}

checkFrame == UNCHANGED <<now, rate_limit_rpm, rate_limit_burst,
                          ttl_conversations, ret, written, invalidated,
                          storeVars>>

\* current_minute and key are computed.
CheckBegin(r) ==
    /\ req[r].pc \in {"idle", "done"}
    /\ \E c \in Clients, p \in RatedPaths :
           /\ CountOf(redis, RateKey(c, p, CurrentMinute(now)))
                  + Cardinality(ChecksBeforeIncr)
                  < rate_limit_rpm + rate_limit_burst + MaxOver
           /\ req' = [req EXCEPT ![r] =
                         [pc |-> "incr", kind |-> "check_rate_limit",
                          identifier |-> c, endpoint |-> p,
                          minute |-> CurrentMinute(now), count |-> 0,
                          allowed |-> FALSE]]
    /\ UNCHANGED <<redis, window>>
    /\ checkFrame

\* current_count = self.client.incr(key)
CheckIncr(r) ==
    /\ req[r].kind = "check_rate_limit" /\ req[r].pc = "incr"
    /\ redis' = RedisINCR(redis, CheckKey(r))
    /\ req' = [req EXCEPT ![r] =
                  [@ EXCEPT !.count = redis'[CheckKey(r)].val,
                            !.pc = IF redis'[CheckKey(r)].val = 1
                                   THEN "expire" ELSE "return"]]
    /\ UNCHANGED window
    /\ checkFrame

\* if current_count == 1: self.client.expire(key, 60)
CheckExpire(r) ==
    /\ req[r].kind = "check_rate_limit" /\ req[r].pc = "expire"
    /\ redis' = RedisEXPIRE(redis, CheckKey(r), WindowSecs, now)
    /\ req' = [req EXCEPT ![r] = [@ EXCEPT !.pc = "return"]]
    /\ UNCHANGED window
    /\ checkFrame

NoteReturn(w, minute, count, allowed) ==
    LET cur == IF w.minute = minute THEN w
               ELSE [minute |-> minute, observed |-> {}, duplicate |-> FALSE,
                     allowed |-> 0]
    IN  [minute |-> minute,
         observed |-> cur.observed \cup {count},
         duplicate |-> cur.duplicate \/ count \in cur.observed,
         allowed |-> cur.allowed + (IF allowed THEN 1 ELSE 0)]

\* return allowed, remaining
CheckReturn(r) ==
    /\ req[r].kind = "check_rate_limit" /\ req[r].pc = "return"
    /\ LET allowed == Allowed(req[r].count, rate_limit_rpm + rate_limit_burst)
           pair == <<req[r].identifier, req[r].endpoint>>
       IN  /\ req' = [req EXCEPT ![r] =
                         [@ EXCEPT !.pc = "done", !.allowed = allowed]]
           /\ window' = IF CurrentMinute(now) = req[r].minute
                        THEN [window EXCEPT ![pair] =
                                 NoteReturn(@, req[r].minute, req[r].count,
                                            allowed)]
                        ELSE window
    /\ UNCHANGED redis
    /\ checkFrame

InitConcurrent ==
    /\ now = 0
    /\ redis = <<>>
    /\ rate_limit_rpm = SmallRpm
    /\ rate_limit_burst = SmallBurst
    /\ ttl_conversations = DefaultTtlConversations
    /\ ret = [op |-> "init"]
    /\ window = [p \in Pairs |-> [minute |-> 0, observed |-> {},
                                  duplicate |-> FALSE, allowed |-> 0]]
    /\ written = <<>>
    /\ invalidated = {}
    /\ InitStores

NextConcurrent ==
    \/ \E r \in Slots :
           \/ CheckBegin(r)
           \/ CheckIncr(r)
           \/ CheckExpire(r)
           \/ CheckReturn(r)
    \/ TickRate

SpecConcurrent == InitConcurrent /\ [][NextConcurrent]_vars

\* C19: of the check_rate_limit calls of one (identity, endpoint) that run
\* within one minute bucket, the store reachable, however the commands of
\* concurrent callers interleave, at most rate_limit_rpm + rate_limit_burst
\* return allowed, and no two observe the same post-increment counter.
C19_AtMostLimitAllowed ==
    \A p \in Pairs :
        /\ ~window[p].duplicate
        /\ window[p].allowed <= Limit
        /\ \A n \in window[p].observed : n >= 1

\* Two callers hold the counter values on either side of the limit at once.
C19_Witness ==
    \E r1, r2 \in Slots :
        /\ req[r1].kind = "check_rate_limit" /\ req[r1].pc = "return"
        /\ req[r2].kind = "check_rate_limit" /\ req[r2].pc = "return"
        /\ req[r1].minute = req[r2].minute
        /\ req[r1].minute = CurrentMinute(now)
        /\ req[r1].count = Limit
        /\ req[r2].count = Limit + 1

\* C15: the middleware consults the limiter before the request is
\* processed.  For a path other than "/", "/health" and "/api/health" the
\* limiter is called (the counter of the pair's bucket is incremented when
\* the store is reachable), the handler runs iff check_rate_limit returned
\* allowed, and a denied request is answered 429 with a JSON body without
\* the handler running; a request for an exempt path runs the handler and
\* leaves every rate counter alone.
C15_Consulted ==
    ret.op = "rate_limit_middleware" =>
        IF ret.path \in {<<"/">>, <<"/health">>, <<"/api/health">>}
        THEN ret.exempt /\ ret.handler_ran
        ELSE /\ ~ret.exempt
             /\ (ret.handler_ran <=> ret.allowed)
             /\ (~ret.failed => ret.count # None)
             /\ (~ret.allowed =>
                     /\ ret.status = 429
                     /\ ret.media_type = "application/json"
                     /\ ~ret.handler_ran)

C15_ExemptCountsNothing ==
    (ret'.op = "rate_limit_middleware" /\ ret' # ret /\ ret'.exempt) =>
        redis' = redis

C15_LimiterBeforeHandler ==
    []C15_Consulted /\ [][C15_ExemptCountsNothing]_vars

\* A denied request, and the handler did not run.
C15_Witness ==
    /\ RatedCall
    /\ ~ret.allowed
    /\ ret.status = 429
    /\ ~ret.handler_ran

\* C16: every rate key in the store has an expiry, at most 60 seconds
\* ahead, in every reachable state -- also when a store call fails between
\* the increment and the expire of the first request of a window.
C16_RateKeysExpire ==
    \A k \in DOMAIN redis :
        /\ redis[k].exp # NoExpiry
        /\ redis[k].exp <= now + WindowSecs

InfoWindow == window[<<ret.client, ret.path>>]

C17_Reports ==
    (ret.op = "get_rate_limit_info" /\ ~ret.failed) =>
        /\ ret.value.limit = Limit
        /\ ret.value.remaining = Max(0, Limit - ret.value.used)
        /\ (InfoWindow.minute # CurrentMinute(ret.at) => ret.value.used = 0)
        /\ (InfoWindow.minute = CurrentMinute(ret.at) /\ InfoWindow.clean =>
                ret.value.used = InfoWindow.calls)

C17_ReadOnlyStep ==
    (ret'.op = "get_rate_limit_info" /\ ret' # ret) => redis' = redis

\* The remaining value of the status query is the one the check_rate_limit
\* before it returned, in the same bucket.
C17_SameAsLastCheck ==
    (/\ ret'.op = "get_rate_limit_info" /\ ~ret'.failed
     /\ RatedCall /\ ~ret.failed
     /\ CurrentMinute(ret.at) = CurrentMinute(ret'.at)
     /\ ret.client = ret'.client /\ ret.path = ret'.path) =>
        ret'.value.remaining = ret.remaining

\* C17: get_rate_limit_info is read-only -- it leaves the store, and so the
\* outcome of every later check_rate_limit, as it was -- and with the store
\* reachable it reports used = the counter of the current minute bucket and
\* remaining = max(0, limit - used), which is the remaining value the most
\* recent check_rate_limit of that bucket returned.
C17_StatusQuery ==
    /\ []C17_Reports
    /\ [][C17_ReadOnlyStep /\ C17_SameAsLastCheck]_vars

\* A status query in a bucket that has seen requests.
C17_Witness ==
    /\ ret.op = "get_rate_limit_info"
    /\ ~ret.failed
    /\ InfoWindow.clean
    /\ InfoWindow.minute = CurrentMinute(ret.at)
    /\ ret.value.used >= 2
    /\ ret.value.used = InfoWindow.calls


\* ------------------------------------------------------------------------
\* Generic cache operations as calls (SpecKV)
\* ------------------------------------------------------------------------
GenericKeys == {<<"cache", ":", "h1">>, <<"cache", ":", "h2">>}
Values == {<<"v1">>, <<"v2">>}
TTLs == {None} \cup {Some(t) : t \in 0..MaxTTL}

kvUnchanged ==
    UNCHANGED <<now, rate_limit_rpm, rate_limit_burst, ttl_conversations,
                window, invalidated, chatVars>>

Set ==
    /\ \E key \in GenericKeys, v \in Values, ttl \in TTLs, ok \in BOOLEAN :
           LET r == set(redis, key, v, ttl, now, ok)
           IN  /\ redis' = r.store
               /\ ret' = [op |-> "set", key |-> key, at |-> now,
                          value |-> r.value, raised |-> r.raised,
                          failed |-> ~ok]
               /\ written' = IF ok
                             THEN Put(written, key,
                                      [val |-> v, ttl |-> ttl, at |-> now])
                             ELSE written
    /\ kvUnchanged

Get ==
    /\ \E key \in GenericKeys, ok \in BOOLEAN :
           LET r == get(redis, key, ok)
           IN  /\ redis' = r.store
               /\ ret' = [op |-> "get", key |-> key, at |-> now,
                          value |-> r.value, raised |-> r.raised,
                          failed |-> ~ok]
    /\ UNCHANGED written
    /\ kvUnchanged

Delete ==
    /\ \E key \in GenericKeys, ok \in BOOLEAN :
           LET r == delete(redis, key, ok)
           IN  /\ redis' = r.store
               /\ ret' = [op |-> "delete", key |-> key, at |-> now,
                          value |-> r.value, raised |-> r.raised,
                          failed |-> ~ok]
               /\ written' = IF ok THEN Drop(written, key) ELSE written
    /\ kvUnchanged

Exists ==
    /\ \E key \in GenericKeys, ok \in BOOLEAN :
           LET r == exists(redis, key, ok)
           IN  /\ redis' = r.store
               /\ ret' = [op |-> "exists", key |-> key, at |-> now,
                          value |-> r.value, raised |-> r.raised,
                          failed |-> ~ok]
    /\ UNCHANGED written
    /\ kvUnchanged

TickKv == Tick(1, MaxKvTime)

InitKv == InitRedis /\ InitStores

NextKv == Set \/ Get \/ Delete \/ Exists \/ TickKv

SpecKV == InitKv /\ [][NextKv]_vars

KvCall == ret.op \in {"get", "set", "delete", "exists"}

\* C5: set(key, v, ttl=T) followed immediately by get(key) returns v, and
\* once more than T seconds have passed without another write to the key,
\* get(key) returns a miss -- for every TTL value T.
C5_SetThenGetThenExpire ==
    (/\ ret.op = "get"
     /\ ~ret.failed
     /\ ret.key \in DOMAIN written
     /\ written[ret.key].ttl # None) =>
        LET w == written[ret.key]
        IN  /\ (ret.at = w.at => ret.value = Some(w.val))
            /\ (ret.at > w.at + w.ttl[1] => ret.value = None)

\* The same for every TTL T >= 1, which the code does satisfy.
C5_PositiveTtl ==
    (/\ ret.op = "get"
     /\ ~ret.failed
     /\ ret.key \in DOMAIN written
     /\ written[ret.key].ttl # None
     /\ written[ret.key].ttl # Some(0)) =>
        LET w == written[ret.key]
        IN  /\ (ret.at = w.at => ret.value = Some(w.val))
            /\ (ret.at > w.at + w.ttl[1] => ret.value = None)

\* C6: a key/value operation whose store call fails raises nothing and
\* returns the degraded value (get None, set / delete / exists False), and
\* the failed call leaves the contents of the store as they were.
C6_Degraded ==
    (KvCall /\ ret.failed) =>
        /\ ~ret.raised
        /\ (ret.op = "get" => ret.value = None)
        /\ (ret.op \in {"set", "delete", "exists"} => ret.value = FALSE)

C6_FailedCallIsNoOp ==
    (now' = now /\ KvCall' /\ ret'.failed) => redis' = redis

ConvIds == 1..MaxCachedConvs

\* key = f"conv:{conversation_id}:messages"
ConvKey(conversation_id) ==
    <<"conv", ":", ToString(conversation_id), ":", "messages">>

\* json.dumps / json.loads of a list: the text is the bracketed elements.
Dumps(messages) == <<"[">> \o messages \o <<"]">>

Loads(text) == SubSeq(text, 2, Len(text) - 1)

cache_conversation(s, conversation_id, messages, ttl, t, ok) ==
    set(s, ConvKey(conversation_id), Dumps(messages), Some(ttl), t, ok)

\* `if cached:` is false for None and for the empty string.
get_cached_conversation(s, conversation_id, ok) ==
    LET cached == get(s, ConvKey(conversation_id), ok).value
    IN  IF cached # None /\ cached[1] # <<>>
        THEN Result(s, Some(Loads(cached[1])), FALSE)
        ELSE Result(s, None, FALSE)

\* An invalidation that deletes a key nothing is cached under.
InvalidateWrongKey(s, conversation_id, ok) ==
    delete(s, <<"conv", ":", ToString(conversation_id)>>, ok)

invalidate_conversation(s, conversation_id, ok) ==
    delete(s, ConvKey(conversation_id), ok)

\* ------------------------------------------------------------------------
\* Conversation cache operations as calls (SpecCache)
\* ------------------------------------------------------------------------
Snapshots == {<<>>, <<"m1">>, <<"m1", "m2">>}

cacheUnchanged ==
    UNCHANGED <<now, rate_limit_rpm, rate_limit_burst, ttl_conversations,
                window, written, chatVars>>

CacheConversation ==
    /\ \E id \in ConvIds, msgs \in Snapshots, ok \in BOOLEAN :
           LET r == cache_conversation(redis, id, msgs, ttl_conversations,
                                       now, ok)
           IN  /\ redis' = r.store
               /\ ret' = [op |-> "cache_conversation", id |-> id, at |-> now,
                          value |-> r.value, raised |-> r.raised,
                          failed |-> ~ok]
               /\ invalidated' = IF r.value THEN invalidated \ {id}
                                 ELSE invalidated
    /\ cacheUnchanged

GetCachedConversation ==
    /\ \E id \in ConvIds, ok \in BOOLEAN :
           LET r == get_cached_conversation(redis, id, ok)
           IN  /\ redis' = r.store
               /\ ret' = [op |-> "get_cached_conversation", id |-> id,
                          at |-> now, value |-> r.value, raised |-> r.raised,
                          failed |-> ~ok]
    /\ UNCHANGED invalidated
    /\ cacheUnchanged

\* invalidated: the conversations whose live snapshot an invalidation that
\* reached the store was issued for, and that were not cached again since.
InvalidateConversation ==
    /\ \E id \in ConvIds, ok \in BOOLEAN :
           LET r == invalidate_conversation(redis, id, ok)
           IN  /\ redis' = r.store
               /\ ret' = [op |-> "invalidate_conversation", id |-> id,
                          at |-> now, value |-> r.value, raised |-> r.raised,
                          failed |-> ~ok]
               /\ invalidated' = IF ok /\ ConvKey(id) \in DOMAIN redis
                                 THEN invalidated \cup {id}
                                 ELSE invalidated
    /\ cacheUnchanged

TickCache == Tick(CacheTickSecs, MaxCacheTime)

InitCache == InitRedis /\ InitStores

NextCache ==
    CacheConversation \/ GetCachedConversation \/ InvalidateConversation
        \/ TickCache

SpecCache == InitCache /\ [][NextCache]_vars

\* C7: after a snapshot of conversation id was cached and before its TTL
\* ran out, invalidate_conversation(id) makes the next
\* get_cached_conversation(id) a miss, as long as no cache_conversation(id)
\* ran in between; the entries of the other conversations stay as they are.
C7_MissAfterInvalidate ==
    (ret.op = "get_cached_conversation" /\ ret.id \in invalidated) =>
        ret.value = None

C7_OthersUntouched ==
    (now' = now /\ ret'.op = "invalidate_conversation") =>
        \A j \in ConvIds \ {ret'.id} :
            RedisGET(redis', ConvKey(j)) = RedisGET(redis, ConvKey(j))

C7_Invalidate == []C7_MissAfterInvalidate /\ [][C7_OthersUntouched]_vars

\* A read of an invalidated conversation while the snapshot of another
\* conversation is still cached.
C7_Witness ==
    /\ ret.op = "get_cached_conversation"
    /\ ~ret.failed
    /\ ret.id \in invalidated
    /\ ret.value = None
    /\ \E j \in ConvIds \ {ret.id} : ConvKey(j) \in DOMAIN redis


\* ------------------------------------------------------------------------
\* ElasticsearchClient: indexing and deletion.  `ok` is whether the call to
\* the index engine works; a failing call never reached it.
\* ------------------------------------------------------------------------
MessageDoc(conversation_id, use_case_id, role, content) ==
    [conversation_id |-> conversation_id, use_case_id |-> use_case_id,
     role |-> role, content |-> content]

\* An index call that lets the engine generate the document id.
EsIndexAutoId(index, id, doc) ==
    Put(index,
        IF DOMAIN index = {} THEN 1
        ELSE 1 + CHOOSE m \in DOMAIN index : \A j \in DOMAIN index : j <= m,
        doc)

\* self.client.index(index=..., id=..., document=doc): upsert by id.
EsIndex(index, id, doc) == Put(index, id, doc)

index_message(index, message_id, conversation_id, use_case_id, role, content, ok) ==
    IF ok
    THEN Result(EsIndex(index, message_id,
                        MessageDoc(conversation_id, use_case_id, role,
                                   content)),
                TRUE, FALSE)
    ELSE Result(index, FALSE, FALSE)

ConversationDoc(use_case_id, title, message_count) ==
    [use_case_id |-> use_case_id, title |-> title,
     message_count |-> message_count]

index_conversation(index, conversation_id, use_case_id, title, message_count, ok) ==
    IF ok
    THEN Result(EsIndex(index, conversation_id,
                        ConversationDoc(use_case_id, title, message_count)),
                TRUE, FALSE)
    ELSE Result(index, FALSE, FALSE)

\* self.client.delete(index=conversations_index, id=..., ignore=[404])
EsDelete(index, id) == Drop(index, id)

\* delete_by_query with {"term": {"conversation_id": conversation_id}}: the
\* query runs on the index as of its last refresh (searchable), and every
\* document it finds is deleted from the index unless it was written again
\* since (a version conflict).  A document indexed since the last refresh
\* is not found and stays.
FoundByQuery(searchable, conversation_id) ==
    {j \in DOMAIN searchable : searchable[j].conversation_id = conversation_id}

VersionConflicts(index, searchable, conversation_id) ==
    {j \in FoundByQuery(searchable, conversation_id) \cap DOMAIN index :
         index[j] # searchable[j]}

EsDeleteByQuery(index, searchable, conversation_id) ==
    LET deleted == FoundByQuery(searchable, conversation_id)
                       \ VersionConflicts(index, searchable, conversation_id)
    IN  [id \in DOMAIN index \ deleted |-> index[id]]

\* The engine refreshes an index on its own schedule (refresh_interval); no
\* call of the client asks for a refresh.  From then on searches see every
\* write made before.
Refresh(index) == index

\* ------------------------------------------------------------------------
\* The primary store (database.py), as the handlers of main.py use it
\* ------------------------------------------------------------------------
MessageRow(id, conversation_id, role) ==
    [id |-> id, conversation_id |-> conversation_id, role |-> role]

\* A commit that persists nothing.
DbInsertLost(rows, row) == rows

\* db.add(row); await db.commit()
DbInsert(rows, row) == rows \cup {row}

\* messages.conversation_id is a foreign key to conversations.id.
ForeignKeyHolds(conversations, conversation_id) ==
    conversation_id \in conversations

\* select(MessageDB).where(conversation_id == ...).order_by(created_at):
\* the conversation's rows, oldest first.
RECURSIVE Ascending(_)
Ascending(rows) ==
    IF rows = {} THEN <<>>
    ELSE LET m == CHOOSE x \in rows : \A y \in rows : x.id <= y.id
         IN  <<m>> \o Ascending(rows \ {m})

MessagesOf(rows, conversation_id) ==
    Ascending({x \in rows : x.conversation_id = conversation_id})

\* db.delete(conversation): the relationship cascades to its messages.
DbDeleteConversation(rows, conversation_id) ==
    {m \in rows : m.conversation_id # conversation_id}

\* cache_data: one JSON object per message row.
RECURSIVE CacheData(_)
CacheData(message_records) ==
    IF message_records = <<>> THEN <<>>
    ELSE <<ToString(Head(message_records).id)>>
             \o CacheData(Tail(message_records))


\* ------------------------------------------------------------------------
\* main.py: the chat handler, one action per stretch between two awaits or
\* calls to another store.  message appends are the two db.commit() of
\* MessageDB rows.
\* ------------------------------------------------------------------------
Terminal == {"idle", "done", "failed"}

\* What a chat request carries: the use case its uri_context names, the text
\* of request.message, the text the agent answers and the title the title
\* model returns.
ChatUseCase == 5
ChatMessage == <<"docker">>
ChatAnswer == <<"help">>
GeneratedTitle == <<"Onboard", "ing", " ", "help">>

\* The response is sent and the locals of the request are gone; committed,
\* invalidated, created (the conversation the request created) and es_failed
\* (a call to the index engine failed) stay as the record of what the
\* request did.
Finished(r, pc, status) ==
    [IdleRequest EXCEPT !.pc = pc, !.kind = r.kind, !.status = status,
                        !.committed = r.committed,
                        !.invalidated = r.invalidated,
                        !.created = r.created,
                        !.es_failed = r.es_failed]

ChatsInFlight == {r \in Slots : req[r].kind = "chat" /\ req[r].pc \notin Terminal}

\* An order in which each message is indexed before it is committed.
ChatOrderIndexFirst ==
    <<"index_user", "commit_user", "agent", "index_assistant",
      "commit_assistant", "invalidate", "title">>

\* Lines 495-607: the statements of the handler after the history was read,
\* in their order.
ChatOrder ==
    <<"commit_user", "index_user", "agent", "commit_assistant",
      "index_assistant", "invalidate", "title">>

ChatStepAfter(step) ==
    ChatOrder[(CHOOSE i \in 1..Len(ChatOrder) : ChatOrder[i] = step) + 1]

Truthy(optional_list) == optional_list # None /\ optional_list[1] # <<>>

chatFrame == UNCHANGED <<now, rate_limit_rpm, rate_limit_burst,
                         ttl_conversations, ret, window, written, invalidated>>

\* Lines 424-443: load the conversation named by the request, or create one.
\* conversationId 0 stands for an absent id (`if conversation_id:`).
ChatBegin(r) ==
    /\ req[r].pc \in Terminal
    /\ (next_msg_id - 1) + 2 * (Cardinality(ChatsInFlight) + 1) <= MaxMsgs
    /\ \E c \in 0..MaxConvs :
           LET fresh == [IdleRequest EXCEPT !.kind = "chat"]
           IN  IF c = 0
               THEN /\ next_conv_id <= MaxConvs
                    /\ db_conversations' = db_conversations \cup {next_conv_id}
                    /\ next_conv_id' = next_conv_id + 1
                    /\ req' = [req EXCEPT ![r] =
                                  [fresh EXCEPT !.pc = "get_cached",
                                      !.conversation_id = next_conv_id,
                                      !.created = next_conv_id]]
               ELSE /\ UNCHANGED <<db_conversations, next_conv_id>>
                    /\ req' = [req EXCEPT ![r] =
                                  IF c \in db_conversations
                                  THEN [fresh EXCEPT !.pc = "get_cached",
                                           !.conversation_id = c]
                                  ELSE Finished(fresh, "done", 404)]
    /\ UNCHANGED <<viewVars, db_messages, next_msg_id, es_messages, es_conversations,
                   redis>>
    /\ chatFrame

\* Line 447: cached_messages = redis_client.get_cached_conversation(...)
ChatGetCached(r) ==
    /\ req[r].kind = "chat" /\ req[r].pc = "get_cached"
    /\ \E ok \in BOOLEAN :
           req' = [req EXCEPT ![r] =
                      [@ EXCEPT !.pc = "load_history",
                           !.cached = get_cached_conversation(
                                          redis, req[r].conversation_id,
                                          ok).value]]
    /\ UNCHANGED <<storeVars, redis>>
    /\ chatFrame

\* Lines 449-469: both branches read the message rows from the database.
ChatLoadHistory(r) ==
    /\ req[r].kind = "chat" /\ req[r].pc = "load_history"
    /\ req' = [req EXCEPT ![r] =
                  [@ EXCEPT !.pc = IF Truthy(req[r].cached) THEN ChatOrder[1]
                                   ELSE "cache_history",
                       !.message_records =
                           MessagesOf(db_messages, req[r].conversation_id)]]
    /\ UNCHANGED <<storeVars, redis>>
    /\ chatFrame

\* Lines 476-485: on a miss, cache what was read.
ChatCacheHistory(r) ==
    /\ req[r].kind = "chat" /\ req[r].pc = "cache_history"
    /\ \E ok \in BOOLEAN :
           redis' = cache_conversation(redis, req[r].conversation_id,
                                       CacheData(req[r].message_records),
                                       ttl_conversations, now, ok).store
    /\ req' = [req EXCEPT ![r] = [@ EXCEPT !.pc = ChatOrder[1]]]
    /\ UNCHANGED storeVars
    /\ chatFrame

\* Lines 495-503: save the user message.  The commit raises when the
\* conversation row is gone, and the exception leaves the handler.
ChatCommitUser(r) ==
    /\ req[r].kind = "chat" /\ req[r].pc = "commit_user"
    /\ IF ForeignKeyHolds(db_conversations, req[r].conversation_id)
       THEN /\ db_messages' = DbInsert(db_messages,
                                  MessageRow(next_msg_id,
                                             req[r].conversation_id, "user"))
            /\ next_msg_id' = next_msg_id + 1
            /\ req' = [req EXCEPT ![r] =
                          [@ EXCEPT !.pc = ChatStepAfter("commit_user"),
                               !.user_id = next_msg_id,
                               !.committed = TRUE]]
       ELSE /\ UNCHANGED <<db_messages, next_msg_id>>
            /\ req' = [req EXCEPT ![r] = Finished(@, "failed", 500)]
    /\ UNCHANGED <<viewVars, db_conversations, next_conv_id, es_messages,
                   es_conversations, redis>>
    /\ chatFrame

\* Lines 505-516: index the user message.
ChatIndexUser(r) ==
    /\ req[r].kind = "chat" /\ req[r].pc = "index_user"
    /\ \E ok \in BOOLEAN :
           /\ es_messages' = index_message(es_messages, req[r].user_id,
                                  req[r].conversation_id, ChatUseCase, "user",
                                  ChatMessage, ok).store
           /\ req' = [req EXCEPT ![r] =
                         [@ EXCEPT !.pc = ChatStepAfter("index_user"),
                                   !.es_failed = req[r].es_failed \/ ~ok]]
    /\ UNCHANGED <<viewVars, db_conversations, db_messages, next_conv_id, next_msg_id,
                   es_conversations, redis>>
    /\ chatFrame

\* Lines 518-529: agent.process_message awaits the LLM; nothing catches what
\* it raises.
ChatAgent(r) ==
    /\ req[r].kind = "chat" /\ req[r].pc = "agent"
    /\ \E ok \in BOOLEAN :
           req' = [req EXCEPT ![r] =
                      IF ok THEN [@ EXCEPT !.pc = ChatStepAfter("agent")]
                      ELSE Finished(@, "failed", 500)]
    /\ UNCHANGED <<storeVars, redis>>
    /\ chatFrame

\* Lines 531-543: save the assistant message.
ChatCommitAssistant(r) ==
    /\ req[r].kind = "chat" /\ req[r].pc = "commit_assistant"
    /\ IF ForeignKeyHolds(db_conversations, req[r].conversation_id)
       THEN /\ db_messages' = DbInsert(db_messages,
                                  MessageRow(next_msg_id,
                                      req[r].conversation_id, "assistant"))
            /\ next_msg_id' = next_msg_id + 1
            /\ req' = [req EXCEPT ![r] =
                          [@ EXCEPT !.pc = ChatStepAfter("commit_assistant"),
                               !.assistant_id = next_msg_id,
                               !.committed = TRUE]]
       ELSE /\ UNCHANGED <<db_messages, next_msg_id>>
            /\ req' = [req EXCEPT ![r] = Finished(@, "failed", 500)]
    /\ UNCHANGED <<viewVars, db_conversations, next_conv_id, es_messages,
                   es_conversations, redis>>
    /\ chatFrame

\* Lines 545-557: index the assistant message.
ChatIndexAssistant(r) ==
    /\ req[r].kind = "chat" /\ req[r].pc = "index_assistant"
    /\ \E ok \in BOOLEAN :
           /\ es_messages' = index_message(es_messages, req[r].assistant_id,
                                  req[r].conversation_id, ChatUseCase,
                                  "assistant", ChatAnswer, ok).store
           /\ req' = [req EXCEPT ![r] =
                         [@ EXCEPT !.pc = ChatStepAfter("index_assistant"),
                                   !.es_failed = req[r].es_failed \/ ~ok]]
    /\ UNCHANGED <<viewVars, db_conversations, db_messages, next_conv_id, next_msg_id,
                   es_conversations, redis>>
    /\ chatFrame

\* Lines 559-560: redis_client.invalidate_conversation(conversation_id)
ChatInvalidate(r) ==
    /\ req[r].kind = "chat" /\ req[r].pc = "invalidate"
    /\ \E ok \in BOOLEAN :
           /\ redis' = invalidate_conversation(redis, req[r].conversation_id,
                                               ok).store
           /\ req' = [req EXCEPT ![r] =
                         [@ EXCEPT !.pc = ChatStepAfter("invalidate"),
                                   !.invalidated = TRUE,
                                   !.invalidate_ok = ok]]
    /\ UNCHANGED storeVars
    /\ chatFrame

\* user_messages: the user rows of the history plus the current message.
UserMessageCount(message_records) ==
    Cardinality({i \in 1..Len(message_records) :
                     message_records[i].role = "user"}) + 1

\* Lines 562-607: from the fourth message on, generate a title, commit it
\* and index the conversation; every failure in there is caught.
ChatTitle(r) ==
    /\ req[r].kind = "chat" /\ req[r].pc = "title"
    /\ LET message_count == Len(req[r].message_records) + 2
           titled == /\ message_count >= 4
                     /\ UserMessageCount(req[r].message_records) >= 2
       IN  \E llm_ok \in BOOLEAN, es_ok \in BOOLEAN :
               LET indexes == /\ titled
                              /\ llm_ok
                              /\ req[r].conversation_id \in db_conversations
               IN  /\ es_conversations' =
                          IF indexes
                          THEN index_conversation(es_conversations,
                                   req[r].conversation_id, ChatUseCase,
                                   GeneratedTitle, message_count, es_ok).store
                          ELSE es_conversations
                   /\ req' = [req EXCEPT ![r] =
                          Finished([@ EXCEPT !.es_failed =
                                       req[r].es_failed
                                           \/ (indexes /\ ~es_ok)],
                                   "done", 200)]
    /\ UNCHANGED <<viewVars, db_conversations, db_messages, next_conv_id, next_msg_id,
                   es_messages, redis>>
    /\ chatFrame


\* ------------------------------------------------------------------------
\* main.py: DELETE /api/conversations/{conversation_id}, and the two calls
\* ElasticsearchClient.delete_conversation makes to the index engine.
\* ------------------------------------------------------------------------

\* Lines 741-752: look the conversation up, delete it and commit; its
\* message rows go with it.
DelBegin(r) ==
    /\ req[r].pc \in Terminal
    /\ \E c \in 1..MaxConvs :
           LET fresh == [IdleRequest EXCEPT !.kind = "delete"]
           IN  IF c \in db_conversations
               THEN /\ db_conversations' = db_conversations \ {c}
                    /\ db_messages' = DbDeleteConversation(db_messages, c)
                    /\ req' = [req EXCEPT ![r] =
                                  [fresh EXCEPT !.pc = "del_es_conv",
                                      !.conversation_id = c]]
               ELSE /\ UNCHANGED <<db_conversations, db_messages>>
                    /\ req' = [req EXCEPT ![r] = Finished(fresh, "done", 404)]
    /\ UNCHANGED <<viewVars, next_conv_id, next_msg_id, es_messages, es_conversations,
                   redis>>
    /\ chatFrame

\* elasticsearch_client.py line 228: delete the conversation document.  An
\* error skips the rest of delete_conversation.
DelEsConv(r) ==
    /\ req[r].kind = "delete" /\ req[r].pc = "del_es_conv"
    /\ \E ok \in BOOLEAN :
           IF ok
           THEN /\ es_conversations' =
                       EsDelete(es_conversations, req[r].conversation_id)
                /\ req' = [req EXCEPT ![r] = [@ EXCEPT !.pc = "del_es_msgs"]]
           ELSE /\ UNCHANGED es_conversations
                /\ req' = [req EXCEPT ![r] =
                              [@ EXCEPT !.pc = "del_invalidate"]]
    /\ UNCHANGED <<viewVars, db_conversations, db_messages, next_conv_id, next_msg_id,
                   es_messages, redis>>
    /\ chatFrame

\* elasticsearch_client.py lines 231-232: delete the message documents of
\* the conversation.
DelEsMsgs(r) ==
    /\ req[r].kind = "delete" /\ req[r].pc = "del_es_msgs"
    /\ \E ok \in BOOLEAN :
           es_messages' = IF ok
                          THEN EsDeleteByQuery(es_messages,
                                               searchable_messages,
                                               req[r].conversation_id)
                          ELSE es_messages
    /\ req' = [req EXCEPT ![r] = [@ EXCEPT !.pc = "del_invalidate"]]
    /\ UNCHANGED <<viewVars, db_conversations, db_messages, next_conv_id, next_msg_id,
                   es_conversations, redis>>
    /\ chatFrame

\* Lines 760-763: redis_client.invalidate_conversation(conversation_id)
DelInvalidate(r) ==
    /\ req[r].kind = "delete" /\ req[r].pc = "del_invalidate"
    /\ \E ok \in BOOLEAN :
           redis' = invalidate_conversation(redis, req[r].conversation_id,
                                            ok).store
    /\ req' = [req EXCEPT ![r] =
                  Finished([@ EXCEPT !.invalidated = TRUE], "done", 200)]
    /\ UNCHANGED storeVars
    /\ chatFrame

\* The messages index refreshes ("refresh_interval": "5s").
RefreshMessages ==
    /\ searchable_messages' = Refresh(es_messages)
    /\ UNCHANGED <<redisVars, db_conversations, db_messages, next_conv_id,
                   next_msg_id, es_messages, es_conversations,
                   searchable_conversations, req>>

\* The conversations index refreshes (the engine's default interval).
RefreshConversations ==
    /\ searchable_conversations' = Refresh(es_conversations)
    /\ UNCHANGED <<redisVars, db_conversations, db_messages, next_conv_id,
                   next_msg_id, es_messages, es_conversations,
                   searchable_messages, req>>

InitChat == InitRedis /\ InitStores

NextChat ==
    \/ \E r \in Slots :
           \/ ChatBegin(r)
           \/ ChatGetCached(r)
           \/ ChatLoadHistory(r)
           \/ ChatCacheHistory(r)
           \/ ChatCommitUser(r)
           \/ ChatIndexUser(r)
           \/ ChatAgent(r)
           \/ ChatCommitAssistant(r)
           \/ ChatIndexAssistant(r)
           \/ ChatInvalidate(r)
           \/ ChatTitle(r)
           \/ DelBegin(r)
           \/ DelEsConv(r)
           \/ DelEsMsgs(r)
           \/ DelInvalidate(r)
    \/ RefreshMessages

SpecChat == InitChat /\ [][NextChat]_vars


\* ------------------------------------------------------------------------
\* Chat write path and deletion: properties (under SpecChat)
\* ------------------------------------------------------------------------

\* C8: every message append a chat request committed is followed, in the
\* same request, by invalidate_conversation -- on every path through the
\* handler, also when the agent or a later step fails after the commit of
\* the user message.
C8_InvalidateAfterEveryAppend ==
    \A r \in Slots :
        (/\ req[r].kind = "chat"
         /\ req[r].pc \in {"done", "failed"}
         /\ req[r].committed) => req[r].invalidated

Persisted(id) == \E m \in db_messages : m.id = id

\* C9: in every reachable state of chat turns and conversation deletions,
\* every message document of the index is the document of a message that
\* exists in the primary store now.
C9_IndexedImpliesPersisted ==
    \A id \in DOMAIN es_messages : Persisted(id)

\* C9 as amended: every message document of the index is the document of a
\* message that was committed to the primary store before it was indexed,
\* under the conversation it was committed to; the message still exists in
\* the primary store unless its conversation has been deleted there.
C9_IndexedWasCommitted ==
    \A id \in DOMAIN es_messages :
        \/ \E m \in db_messages :
               /\ m.id = id
               /\ m.conversation_id = es_messages[id].conversation_id
               /\ m.role = es_messages[id].role
        \/ /\ id < next_msg_id
           /\ es_messages[id].conversation_id < next_conv_id
           /\ es_messages[id].conversation_id \notin db_conversations

\* A chat turn indexed its message after a deletion removed the
\* conversation: the document is there, the row is not.
C9_Witness ==
    \E id \in DOMAIN es_messages :
        /\ ~Persisted(id)
        /\ es_messages[id].conversation_id \notin db_conversations
        /\ \E r \in Slots : req[r].kind = "chat" /\ req[r].user_id = id

\* ------------------------------------------------------------------------
\* ElasticsearchClient.bulk_index_messages
\* ------------------------------------------------------------------------
Shapes == {"ok", "missing_field", "bad_type"}

\* The dicts a caller may pass: complete and well typed ("ok"), lacking a
\* key the action builder subscripts ("missing_field"), or complete with a
\* value the mapping rejects, such as a conversation_id that is no integer
\* ("bad_type").
BulkMessages ==
    [id : 1..MaxBatch, conversation_id : {1}, use_case_id : {5},
     role : {"user"}, content : {<<"docker">>}, shape : Shapes]

RECURSIVE Batches(_)
Batches(n) ==
    IF n = 0 THEN {<<>>}
    ELSE LET shorter == Batches(n - 1)
         IN  shorter \cup
             {Append(b, m) : b \in {x \in shorter : Len(x) = n - 1},
                             m \in BulkMessages}

DistinctIds(b) == \A i, j \in 1..Len(b) : b[i].id = b[j].id => i = j

\* helpers.bulk(client, actions, raise_on_error=False): every action is
\* tried; a rejected document is reported, the others are written.
RECURSIVE HelpersBulk(_, _)
HelpersBulk(index, actions) ==
    IF actions = <<>> THEN [store |-> index, success |-> 0, errors |-> 0]
    ELSE LET a == Head(actions)
             accepted == a.shape # "bad_type"
             rest == HelpersBulk(IF accepted
                                 THEN EsIndex(index, a.id,
                                          MessageDoc(a.conversation_id,
                                              a.use_case_id, a.role,
                                              a.content))
                                 ELSE index,
                                 Tail(actions))
         IN  [store |-> rest.store,
              success |-> rest.success + (IF accepted THEN 1 ELSE 0),
              errors |-> rest.errors + (IF accepted THEN 0 ELSE 1)]

\* Building the actions subscripts every required key of every message
\* before anything is sent: one missing key raises out of the loop.
BuildRaises(messages) ==
    \E i \in 1..Len(messages) : messages[i].shape = "missing_field"

\* What helpers.bulk had the engine apply before it raised: the first
\* `sent` actions (none when the connection failed, all of them when the
\* response was lost).
AppliedBeforeRaise(index, messages, sent) ==
    HelpersBulk(index, SubSeq(messages, 1, sent))

\* ok: helpers.bulk returns; otherwise it raises after `sent` actions.
bulk_index_messages(index, messages, ok, sent) ==
    IF messages = <<>> THEN Result(index, <<0, 0>>, FALSE)
    ELSE IF BuildRaises(messages)
    THEN Result(index, <<0, Len(messages)>>, FALSE)
    ELSE IF ~ok
    THEN Result(AppliedBeforeRaise(index, messages, sent).store,
                <<0, Len(messages)>>, FALSE)
    ELSE LET r == HelpersBulk(index, messages)
         IN  Result(r.store, <<r.success, r.errors>>, FALSE)

\* The number of documents of the batch the engine wrote.
BulkWritten(index, messages, ok, sent) ==
    IF messages = <<>> \/ BuildRaises(messages) THEN 0
    ELSE IF ok THEN HelpersBulk(index, messages).success
    ELSE AppliedBeforeRaise(index, messages, sent).success

BulkIndexMessages ==
    /\ \E messages \in {b \in Batches(MaxBatch) : DistinctIds(b)},
          ok \in BOOLEAN :
           \E sent \in IF ok THEN {Len(messages)} ELSE {0, Len(messages)} :
               LET r == bulk_index_messages(es_messages, messages, ok, sent)
               IN  /\ es_messages' = r.store
                   /\ ret' = [op |-> "bulk_index_messages",
                              messages |-> messages, value |-> r.value,
                              raised |-> r.raised, failed |-> ~ok,
                              written |-> BulkWritten(es_messages, messages,
                                                      ok, sent)]
    /\ UNCHANGED <<viewVars, now, redis, rate_limit_rpm, rate_limit_burst,
                   ttl_conversations, window, written, invalidated,
                   db_conversations, db_messages, next_conv_id, next_msg_id,
                   es_conversations, req>>

InitBulk == InitRedis /\ InitStores

NextBulk == BulkIndexMessages

SpecBulk == InitBulk /\ [][NextBulk]_vars

Malformed(messages) ==
    {i \in 1..Len(messages) : messages[i].shape # "ok"}

\* C10: for a batch of N >= 1 messages bulk_index_messages returns (N, 0)
\* when every document is well formed; when exactly one is malformed it
\* returns (N-1, 1) and the other N-1 documents are in the index.
C10_BulkPartialFailure ==
    (/\ ret.op = "bulk_index_messages"
     /\ ~ret.failed
     /\ Len(ret.messages) >= 1) =>
        LET n == Len(ret.messages)
            bad == Malformed(ret.messages)
        IN  /\ (bad = {} => ret.value = <<n, 0>>)
            /\ (Cardinality(bad) = 1 =>
                    /\ ret.value = <<n - 1, 1>>
                    /\ \A i \in 1..n \ bad :
                           ret.messages[i].id \in DOMAIN es_messages)

\* ------------------------------------------------------------------------
\* ElasticsearchClient: search operations.  A text is a sequence of chunks
\* of characters, the chunk " " separating its words.  Searches read the
\* index as of its last refresh.
\* ------------------------------------------------------------------------

\* The analyzers lowercase.
Lower(c) ==
    CASE c = "Onboard" -> "onboard"
      [] c = "Docker" -> "docker"
      [] OTHER -> c

Analyze(text) == [i \in 1..Len(text) |-> Lower(text[i])]

FirstSpace(text) ==
    IF \E i \in 1..Len(text) : text[i] = " "
    THEN CHOOSE i \in 1..Len(text) :
             text[i] = " " /\ \A j \in 1..(i - 1) : text[j] # " "
    ELSE Len(text) + 1

RECURSIVE Words(_)
Words(text) ==
    IF text = <<>> THEN {}
    ELSE LET i == FirstSpace(text)
         IN  (IF i > 1 THEN {SubSeq(text, 1, i - 1)} ELSE {})
                 \cup Words(SubSeq(text, i + 1, Len(text)))

\* "fuzziness": "AUTO": a word matches a word within one or two edits of it.
Fuzzy(a, b) == a = b \/ {a, b} = {<<"docker">>, <<"dockr">>}

\* multi_match, operator "or": some word of the query matches some word of
\* the field.
TextMatches(query, text) ==
    \E q \in Words(Analyze(query)), w \in Words(Analyze(text)) : Fuzzy(q, w)

\* `if use_case_id:` / `if conversation_id:` -- a filter is added for a
\* value that is neither None nor 0.
TruthyInt(optional) == optional # None /\ optional[1] # 0

\* `if role:` -- a filter is added for a value that is neither None nor "".
TruthyStr(optional) == optional # None /\ optional[1] # ""

\* {"term": {field: value}} in the filter context.
TermFilter(applies, supplied, value) == applies => value = supplied[1]

Hit(index, id) ==
    [id |-> id, conversation_id |-> index[id].conversation_id,
     use_case_id |-> index[id].use_case_id, role |-> index[id].role,
     content |-> index[id].content]

\* A search method without its try/except.
SearchUnguarded(ok, value, empty) ==
    IF ok THEN [value |-> value, raised |-> FALSE]
    ELSE [value |-> empty, raised |-> TRUE]

\* try: ... return value / except Exception: return empty
SearchGuarded(ok, value, empty) ==
    IF ok THEN [value |-> value, raised |-> FALSE]
    ELSE [value |-> empty, raised |-> FALSE]

\* The documents of fewer than `size` (20) matches are one page; the order
\* of the page (created_at, descending) is not modelled.
search_messages(searchable, query, use_case_id, conversation_id, role, ok) ==
    LET matching ==
            {id \in DOMAIN searchable :
                 /\ (query # <<>> => TextMatches(query, searchable[id].content))
                 /\ TermFilter(TruthyInt(use_case_id), use_case_id,
                               searchable[id].use_case_id)
                 /\ TermFilter(TruthyInt(conversation_id), conversation_id,
                               searchable[id].conversation_id)
                 /\ TermFilter(TruthyStr(role), role, searchable[id].role)}
    IN  SearchGuarded(ok,
            [total |-> Cardinality(matching),
             hits |-> {Hit(searchable, id) : id \in matching}],
            [total |-> 0, hits |-> {}])

\* The title query is always part of the must clause.
search_conversations(searchable, query, use_case_id, ok) ==
    LET matching ==
            {id \in DOMAIN searchable :
                 /\ TextMatches(query, searchable[id].title)
                 /\ TermFilter(TruthyInt(use_case_id), use_case_id,
                               searchable[id].use_case_id)}
    IN  SearchGuarded(ok,
            [total |-> Cardinality(matching),
             hits |-> {[id |-> id, title |-> searchable[id].title,
                        use_case_id |-> searchable[id].use_case_id] :
                           id \in matching}],
            [total |-> 0, hits |-> {}])

IsPrefix(p, text) == Len(p) <= Len(text) /\ SubSeq(text, 1, Len(p)) = p

\* The options of the completion suggester: one per document whose analyzed
\* title starts with the analyzed prefix.
Options(searchable, prefix) ==
    {id \in DOMAIN searchable :
         IsPrefix(Analyze(prefix), Analyze(searchable[id].title))}

\* Options that keep every document, equal titles included.
KeepDuplicates(searchable, options) == options

\* "skip_duplicates": True -- one option for each text.
SkipDuplicates(searchable, options) ==
    {id \in options :
         \A other \in options :
             searchable[other].title = searchable[id].title => id <= other}

RECURSIVE TitlesOf(_, _)
TitlesOf(searchable, options) ==
    IF options = {} THEN <<>>
    ELSE LET id == CHOOSE x \in options : \A y \in options : x <= y
         IN  <<searchable[id].title>> \o TitlesOf(searchable, options \ {id})

\* The lists suggest_conversations may return: the texts of at most `size`
\* of the options, whichever the engine ranks first.  The search body is
\* built from prefix and size; use_case_id is a parameter the body of the
\* method does not mention.
suggest_conversations(searchable, prefix, use_case_id, size, ok) ==
    LET options == SkipDuplicates(searchable, Options(searchable, prefix))
        kept == IF Cardinality(options) <= size THEN {options}
                ELSE {o \in SUBSET options : Cardinality(o) = size}
    IN  {SearchGuarded(ok, TitlesOf(searchable, o), <<>>) : o \in kept}

EmptyDict == [k \in {} |-> 0]

\* The aggregations of get_message_stats over the filtered documents; the
\* per-day histogram is left out with created_at.
get_message_stats(searchable, use_case_id, ok) ==
    LET counted == {id \in DOMAIN searchable :
                        TermFilter(TruthyInt(use_case_id), use_case_id,
                                   searchable[id].use_case_id)}
    IN  SearchGuarded(ok,
            [total_messages |-> Cardinality(counted),
             messages_by_role |->
                 [r \in {searchable[id].role : id \in counted} |->
                      Cardinality({id \in counted : searchable[id].role = r})],
             total_conversations |->
                 Cardinality({searchable[id].conversation_id : id \in counted})],
            EmptyDict)

\* ElasticsearchClient.delete_conversation as one call.  `fail` names the
\* call to the engine that fails: "delete", "delete_by_query" or "none".  A
\* delete_by_query that meets a version conflict raises as well.
delete_conversation(conversations, messages, searchable, conversation_id, fail) ==
    IF fail = "delete"
    THEN [conversations |-> conversations, messages |-> messages,
          value |-> FALSE, raised |-> FALSE]
    ELSE IF fail = "delete_by_query"
    THEN [conversations |-> EsDelete(conversations, conversation_id),
          messages |-> messages, value |-> FALSE, raised |-> FALSE]
    ELSE [conversations |-> EsDelete(conversations, conversation_id),
          messages |-> EsDeleteByQuery(messages, searchable, conversation_id),
          value |-> VersionConflicts(messages, searchable, conversation_id)
                        = {},
          raised |-> FALSE]

\* ------------------------------------------------------------------------
\* ElasticsearchClient as its callers use it, one action per call
\* ------------------------------------------------------------------------

\* Message documents of two conversations and two use cases.
SampleMessages ==
    {MessageDoc(1, 5, "user", <<"docker">>),
     MessageDoc(1, 6, "assistant", <<"help">>),
     MessageDoc(2, 5, "assistant", <<"docker", " ", "help">>),
     MessageDoc(2, 6, "user", <<"dockr">>)}

Titles == {<<"Onboard", "ing", " ", "help">>, <<"Onboard">>, <<"Docker">>}

SampleConversations == {ConversationDoc(5, t, 4) : t \in Titles}

\* One title, before and after two more messages.
RetitledConversations ==
    {ConversationDoc(5, GeneratedTitle, n) : n \in {4, 6}}

Queries == {<<>>, <<"docker">>}
UseCaseFilters == {None, Some(0), Some(5)}
ConversationFilters == {None, Some(0), Some(1)}
RoleFilters == {None, Some(""), Some("user")}

\* The filters of one search: at most one of them supplied, or all three.
SearchFilters ==
    {f \in UseCaseFilters \X ConversationFilters \X RoleFilters :
         \/ Cardinality({i \in 1..3 : f[i] # None}) <= 1
         \/ f = <<Some(5), Some(1), Some("user")>>}
Prefixes == {<<"Onboard">>, <<"onboard">>, <<"Onboard", "ing">>, <<"Docker">>}
DeleteFailPoints == {"none", "delete", "delete_by_query"}

\* Whether the index holds the document already: "absent", "same" or
\* "different".
Existing(index, id, doc) ==
    IF id \notin DOMAIN index THEN "absent"
    ELSE IF index[id] = doc THEN "same" ELSE "different"

esFrame == UNCHANGED <<now, redis, rate_limit_rpm, rate_limit_burst,
                       ttl_conversations, window, written, invalidated,
                       db_conversations, db_messages, next_conv_id,
                       next_msg_id, req>>

IndexMessage(ids, docs) ==
    /\ \E id \in ids, d \in docs, ok \in BOOLEAN :
           LET r == index_message(es_messages, id, d.conversation_id,
                                  d.use_case_id, d.role, d.content, ok)
           IN  /\ es_messages' = r.store
               /\ ret' = [op |-> "index_message", id |-> id, doc |-> d,
                          existing |-> Existing(es_messages, id, d),
                          value |-> r.value, raised |-> r.raised,
                          failed |-> ~ok]
    /\ UNCHANGED <<es_conversations, viewVars>>
    /\ esFrame

IndexConversation(ids, docs) ==
    /\ \E id \in ids, d \in docs, ok \in BOOLEAN :
           LET r == index_conversation(es_conversations, id, d.use_case_id,
                                       d.title, d.message_count, ok)
           IN  /\ es_conversations' = r.store
               /\ ret' = [op |-> "index_conversation", id |-> id, doc |-> d,
                          existing |-> Existing(es_conversations, id, d),
                          value |-> r.value, raised |-> r.raised,
                          failed |-> ~ok]
    /\ UNCHANGED <<es_messages, viewVars>>
    /\ esFrame

DeleteConversation(ids) ==
    /\ \E id \in ids, fail \in DeleteFailPoints :
           LET r == delete_conversation(es_conversations, es_messages,
                                        searchable_messages, id, fail)
           IN  /\ es_conversations' = r.conversations
               /\ es_messages' = r.messages
               /\ ret' = [op |-> "delete_conversation", id |-> id,
                          value |-> r.value, raised |-> r.raised,
                          failed |-> fail # "none"]
    /\ UNCHANGED viewVars
    /\ esFrame

\* `after_delete`: the call before this one was a delete_conversation, of
\* the conversation this search filters on, that returned True.
SearchMessages ==
    /\ \E query \in Queries, f \in SearchFilters, ok \in BOOLEAN :
           LET use_case_id == f[1]
               conversation_id == f[2]
               role == f[3]
               r == search_messages(searchable_messages, query, use_case_id,
                                    conversation_id, role, ok)
           IN  ret' = [op |-> "search_messages", query |-> query,
                       use_case_id |-> use_case_id,
                       conversation_id |-> conversation_id, role |-> role,
                       after_delete |->
                           /\ ret.op = "delete_conversation"
                           /\ ret.value
                           /\ conversation_id = Some(ret.id),
                       value |-> r.value, raised |-> r.raised,
                       failed |-> ~ok]
    /\ UNCHANGED <<es_messages, es_conversations, viewVars>>
    /\ esFrame

SearchConversations ==
    /\ \E query \in Prefixes, use_case_id \in UseCaseFilters, ok \in BOOLEAN :
           LET r == search_conversations(searchable_conversations, query,
                                         use_case_id, ok)
           IN  ret' = [op |-> "search_conversations", query |-> query,
                       use_case_id |-> use_case_id,
                       value |-> r.value, raised |-> r.raised,
                       failed |-> ~ok]
    /\ UNCHANGED <<es_messages, es_conversations, viewVars>>
    /\ esFrame

\* `stored`: the title the call before this one stored with
\* index_conversation, if it was one that returned True.  `refreshed`: the
\* titles searchable when the call is made.
\* use_case_id: Optional[int] = None
SuggestUseCases == {None, Some(5), Some(6)}

SuggestConversations ==
    /\ \E prefix \in Prefixes, size \in {1, DefaultSuggestSize},
          use_case_id \in SuggestUseCases, ok \in BOOLEAN :
           \E r \in suggest_conversations(searchable_conversations, prefix,
                                          use_case_id, size, ok) :
               ret' = [op |-> "suggest_conversations", prefix |-> prefix,
                       size |-> size, use_case_id |-> use_case_id,
                       scoped |-> {searchable_conversations[id].title :
                                      id \in {j \in DOMAIN searchable_conversations :
                                          Some(searchable_conversations[j].use_case_id)
                                              = use_case_id}},
                       stored |-> IF ret.op = "index_conversation" /\ ret.value
                                  THEN Some(ret.doc.title) ELSE None,
                       refreshed |-> {searchable_conversations[id].title :
                                         id \in DOMAIN searchable_conversations},
                       value |-> r.value, raised |-> r.raised,
                       failed |-> ~ok]
    /\ UNCHANGED <<es_messages, es_conversations, viewVars>>
    /\ esFrame

GetMessageStats ==
    /\ \E use_case_id \in UseCaseFilters, ok \in BOOLEAN :
           LET r == get_message_stats(searchable_messages, use_case_id, ok)
           IN  ret' = [op |-> "get_message_stats",
                       use_case_id |-> use_case_id,
                       value |-> r.value, raised |-> r.raised,
                       failed |-> ~ok]
    /\ UNCHANGED <<es_messages, es_conversations, viewVars>>
    /\ esFrame

InitEs == InitRedis /\ InitStores

\* Indexing alone.
IndexAnyMessage == IndexMessage(1..MaxDocs, SampleMessages)
IndexAnyConversation == IndexConversation(1..MaxTitled, SampleConversations)

NextIndex == IndexAnyMessage \/ IndexAnyConversation

SpecIndex == InitEs /\ [][NextIndex]_vars

\* The messages index, its searches and the deletion of conversations.
DeleteAnyConversation == DeleteConversation({0, 1, 2})

NextSearch ==
    \/ IndexAnyMessage
    \/ DeleteAnyConversation
    \/ SearchMessages
    \/ RefreshMessages

SpecSearch == InitEs /\ [][NextSearch]_vars

\* The conversations index and its suggester.
NextTitles ==
    \/ IndexAnyConversation
    \/ SuggestConversations
    \/ RefreshConversations

SpecTitles == InitEs /\ [][NextTitles]_vars

\* Every search method over one message and one conversation.
IndexOneMessage ==
    IndexMessage({1}, {MessageDoc(1, 5, "user", <<"docker">>)})
IndexRetitled == IndexConversation(1..MaxSearchConvs, RetitledConversations)

NextDegraded ==
    \/ IndexOneMessage
    \/ IndexRetitled
    \/ SearchMessages
    \/ SearchConversations
    \/ SuggestConversations
    \/ GetMessageStats
    \/ RefreshMessages
    \/ RefreshConversations

SpecDegraded == InitEs /\ [][NextDegraded]_vars

\* ------------------------------------------------------------------------
\* Search index: properties
\* ------------------------------------------------------------------------
IndexCall ==
    ret.op \in {"index_message", "index_conversation"} /\ ~ret.failed

IndexOf(op) == IF op = "index_message" THEN es_messages ELSE es_conversations

C11_Stored ==
    IndexCall =>
        /\ ret.id \in DOMAIN IndexOf(ret.op)
        /\ IndexOf(ret.op)[ret.id] = ret.doc

UpsertOf(before, after, id, doc, existing) ==
    /\ DOMAIN after = DOMAIN before \cup {id}
    /\ after[id] = doc
    /\ \A j \in DOMAIN before \ {id} : after[j] = before[j]
    /\ (existing = "same" => after = before)
    /\ (existing # "absent" =>
            Cardinality(DOMAIN after) = Cardinality(DOMAIN before))

C11_UpsertStep ==
    /\ (ret'.op = "index_message" /\ ~ret'.failed) =>
           UpsertOf(es_messages, es_messages', ret'.id, ret'.doc,
                    ret'.existing)
    /\ (ret'.op = "index_conversation" /\ ~ret'.failed) =>
           UpsertOf(es_conversations, es_conversations', ret'.id, ret'.doc,
                    ret'.existing)

\* C11: index_message and index_conversation are upserts keyed by the id.
\* After a call that succeeds the index holds the call's document under its
\* id; a call that repeats the document the index already holds under the id
\* leaves the index as it is; a call with other fields replaces the document;
\* neither adds a second document and no other document changes.
C11_IdempotentUpsert == []C11_Stored /\ [][C11_UpsertStep]_vars

\* A document indexed again with the same arguments, next to another one.
C11_Witness ==
    /\ ret.op = "index_message"
    /\ ~ret.failed
    /\ ret.existing = "same"
    /\ Cardinality(DOMAIN es_messages) = 2

\* C12: a search_messages filtered on conversation id that follows a
\* delete_conversation(id) which returned True, no write to the index in
\* between, has zero hits.  (That the deletion leaves the documents of other
\* conversations in the index is C12_OthersLeft.)
C12_DeleteThenSearch ==
    (/\ ret.op = "search_messages"
     /\ ret.after_delete
     /\ ~ret.failed) =>
        ret.value.total = 0 /\ ret.value.hits = {}

C12_OthersLeft ==
    [][ret'.op = "delete_conversation" =>
           \A id \in DOMAIN es_messages :
               es_messages[id].conversation_id # ret'.id =>
                   /\ id \in DOMAIN es_messages'
                   /\ es_messages'[id] = es_messages[id]]_vars

\* C13: no hit of search_messages differs from a supplied use_case_id,
\* conversation_id or role, whatever its content.
C13_FilterExclusion ==
    ret.op = "search_messages" =>
        \A h \in ret.value.hits :
            /\ (ret.use_case_id # None => h.use_case_id = ret.use_case_id[1])
            /\ (ret.conversation_id # None =>
                    h.conversation_id = ret.conversation_id[1])
            /\ (ret.role # None => h.role = ret.role[1])

\* What of C13 holds: the exclusion for supplied values other than 0 and "".
C13_TruthyFilterExclusion ==
    ret.op = "search_messages" =>
        \A h \in ret.value.hits :
            /\ (TruthyInt(ret.use_case_id) =>
                    h.use_case_id = ret.use_case_id[1])
            /\ (TruthyInt(ret.conversation_id) =>
                    h.conversation_id = ret.conversation_id[1])
            /\ (TruthyStr(ret.role) => h.role = ret.role[1])

SearchOps ==
    {"search_messages", "search_conversations", "suggest_conversations",
     "get_message_stats"}

C14_EmptyOnFailure ==
    (ret.op \in SearchOps /\ ret.failed) =>
        /\ ~ret.raised
        /\ CASE ret.op \in {"search_messages", "search_conversations"} ->
                    ret.value = [total |-> 0, hits |-> {}]
             [] ret.op = "suggest_conversations" -> ret.value = <<>>
             [] OTHER -> DOMAIN ret.value = {}

C14_ReadOnly ==
    (ret'.op \in SearchOps /\ ret' # ret) =>
        UNCHANGED <<es_messages, es_conversations, searchable_messages,
                    searchable_conversations>>

\* C14: search fails closed.  When the call to the engine fails,
\* search_messages and search_conversations return {total: 0, hits: []},
\* suggest_conversations returns [] and get_message_stats returns {};
\* nothing is raised, and no search method changes the index.
C14_FailClosed == []C14_EmptyOnFailure /\ [][C14_ReadOnly]_vars

\* A failing search over an index whose searchable document matches it.
C14_Witness ==
    /\ ret.op = "search_messages"
    /\ ret.failed
    /\ ret.query = <<"docker">>
    /\ ret.use_case_id = None /\ ret.conversation_id = None /\ ret.role = None
    /\ searchable_messages # <<>>
    /\ ret.value.total = 0

Range(f) == {f[i] : i \in DOMAIN f}

NoDuplicates(list) == \A i, j \in 1..Len(list) : list[i] = list[j] => i = j

CachedSnapshot(conversation_id) ==
    Range(Loads(redis[ConvKey(conversation_id)].val))

\* The chat turns whose invalidate_conversation has completed, and whose two
\* messages are still committed.
InvalidationCompleted ==
    {r \in Slots : /\ req[r].kind = "chat" /\ req[r].pc = "title"
                   /\ req[r].invalidate_ok
                   /\ \E m \in db_messages : m.id = req[r].user_id
                   /\ \E m \in db_messages : m.id = req[r].assistant_id}

\* C20: once the invalidate_conversation call that follows a commit has
\* completed, no cached snapshot of the conversation omits the committed
\* message, whatever concurrent chat turns on the conversation do.
C20_NoStaleSnapshotAfterInvalidate ==
    \A r \in InvalidationCompleted :
        ConvKey(req[r].conversation_id) \in DOMAIN redis =>
            /\ ToString(req[r].user_id)
                   \in CachedSnapshot(req[r].conversation_id)
            /\ ToString(req[r].assistant_id)
                   \in CachedSnapshot(req[r].conversation_id)

\* ------------------------------------------------------------------------
\* elasticsearch_client.py: delete_conversation, one action per call it
\* makes to the engine.  The process can die between two calls; other
\* processes index documents in between.
\* ------------------------------------------------------------------------
MaxDelConvs == 1

\* An order of the two calls other than the one of the source.
DeleteStepsReversed == <<"delete_by_query", "delete">>

\* Lines 228-232: the calls in the order the method makes them.
DeleteSteps == <<"delete", "delete_by_query">>

\* client.delete answers 404 for a document that is absent.
DeleteStatus(index, id) == IF id \in DOMAIN index THEN 200 ELSE 404

\* No status is ignored.
IgnoreNothing == {}

\* ignore=[404]
IgnoredStatuses == {404}

StepAfter(step) ==
    LET i == CHOOSE j \in 1..Len(DeleteSteps) : DeleteSteps[j] = step
    IN  IF i < Len(DeleteSteps) THEN DeleteSteps[i + 1] ELSE "return"

\* The locals of one delete_conversation call and the record of what it
\* did: conv_deleted, the delete of the conversation document was answered;
\* msgs_removed, the message documents its delete_by_query removed;
\* raised, the calls that raised; reindexed, another process indexed the
\* conversation document since the call began.
DeleteRequest(id) ==
    [pc |-> DeleteSteps[1], kind |-> "es_delete", conversation_id |-> id,
     conv_deleted |-> FALSE, conv_absent |-> FALSE, cascade_ran |-> FALSE,
     msgs_removed |-> {}, raised |-> {}, reindexed |-> FALSE, value |-> None]

deleteFrame == UNCHANGED <<redisVars, db_conversations, db_messages,
                           next_conv_id, next_msg_id, viewVars>>

EsDelBegin(r) ==
    /\ req[r].pc \in Terminal \cup {"crashed"}
    /\ \E id \in 1..MaxDelConvs : req' = [req EXCEPT ![r] = DeleteRequest(id)]
    /\ UNCHANGED <<es_messages, es_conversations>>
    /\ deleteFrame

\* Line 228: self.client.delete(index, id, ignore=[404])
EsDelConversation(r) ==
    /\ req[r].kind = "es_delete" /\ req[r].pc = "delete"
    /\ \E ok \in BOOLEAN :
           LET status == DeleteStatus(es_conversations, req[r].conversation_id)
               raises == ~ok \/ status \notin {200} \cup IgnoredStatuses
           IN  /\ es_conversations' =
                      IF ok THEN EsDelete(es_conversations,
                                          req[r].conversation_id)
                      ELSE es_conversations
               /\ req' = [req EXCEPT ![r] =
                      IF raises
                      THEN [@ EXCEPT !.pc = "done", !.value = Some(FALSE),
                                !.raised = IF ok THEN @ ELSE @ \cup {"delete"},
                                !.conv_absent = ok /\ status = 404]
                      ELSE [@ EXCEPT !.pc = StepAfter("delete"),
                                !.conv_deleted = TRUE,
                                !.conv_absent = status = 404]]
    /\ UNCHANGED es_messages
    /\ deleteFrame

\* Lines 231-232: self.client.delete_by_query(index, body=query); a version
\* conflict makes the call raise after the other documents were deleted.
EsDelMessages(r) ==
    /\ req[r].kind = "es_delete" /\ req[r].pc = "delete_by_query"
    /\ \E ok \in BOOLEAN :
           LET id == req[r].conversation_id
               conflicts == VersionConflicts(es_messages, searchable_messages,
                                             id)
               after == IF ok THEN EsDeleteByQuery(es_messages,
                                       searchable_messages, id)
                        ELSE es_messages
           IN  /\ es_messages' = after
               /\ req' = [req EXCEPT ![r] =
                      IF ~ok \/ conflicts # {}
                      THEN [@ EXCEPT !.pc = "done", !.value = Some(FALSE),
                                !.cascade_ran = ok,
                                !.msgs_removed = DOMAIN es_messages
                                                     \ DOMAIN after,
                                !.raised = @ \cup {"delete_by_query"}]
                      ELSE [@ EXCEPT !.pc = StepAfter("delete_by_query"),
                                !.cascade_ran = TRUE,
                                !.msgs_removed = DOMAIN es_messages
                                                     \ DOMAIN after]]
    /\ UNCHANGED es_conversations
    /\ deleteFrame

\* Line 234: return True
EsDelReturn(r) ==
    /\ req[r].kind = "es_delete" /\ req[r].pc = "return"
    /\ req' = [req EXCEPT ![r] = [@ EXCEPT !.pc = "done",
                                           !.value = Some(TRUE)]]
    /\ UNCHANGED <<es_messages, es_conversations>>
    /\ deleteFrame

\* The process dies before its next call.
EsDelCrash(r) ==
    /\ req[r].kind = "es_delete"
    /\ req[r].pc \in {"delete", "delete_by_query", "return"}
    /\ req' = [req EXCEPT ![r] = [@ EXCEPT !.pc = "crashed"]]
    /\ UNCHANGED <<es_messages, es_conversations>>
    /\ deleteFrame

\* Messages of the conversation that is deleted and of another one.
DeletedMessages ==
    {MessageDoc(1, 5, "user", <<"docker">>),
     MessageDoc(MaxDelConvs + 1, 5, "user", <<"docker">>)}

\* index_message by another process.
DelIndexMessage ==
    /\ \E id \in 1..MaxDocs, d \in DeletedMessages :
           es_messages' = index_message(es_messages, id, d.conversation_id,
                                        d.use_case_id, d.role, d.content,
                                        TRUE).store
    /\ UNCHANGED <<es_conversations, req>>
    /\ deleteFrame

\* index_conversation by another process.
DelIndexConversation ==
    /\ \E id \in 1..MaxDelConvs, d \in RetitledConversations :
           /\ es_conversations' =
                  index_conversation(es_conversations, id, d.use_case_id,
                                     d.title, d.message_count, TRUE).store
           /\ req' = [r \in Slots |->
                         IF req[r].kind = "es_delete"
                            /\ req[r].conversation_id = id
                         THEN [req[r] EXCEPT !.reindexed = TRUE]
                         ELSE req[r]]
    /\ UNCHANGED es_messages
    /\ deleteFrame

NextDelete ==
    \/ \E r \in Slots :
           \/ EsDelBegin(r)
           \/ EsDelConversation(r)
           \/ EsDelMessages(r)
           \/ EsDelReturn(r)
           \/ EsDelCrash(r)
    \/ DelIndexMessage
    \/ DelIndexConversation
    \/ RefreshMessages

SpecDelete == InitEs /\ [][NextDelete]_vars

Deletes == {r \in Slots : req[r].kind = "es_delete"}

\* C21: delete_conversation deletes the conversation document first and the
\* message documents second: in every intermediate, finished or crashed
\* state, message documents were removed by the call only after its delete
\* of the conversation document was answered, and unless another process
\* indexed the conversation again, the conversation document is then gone.
C21_ConversationFirst ==
    \A r \in Deletes :
        (req[r].msgs_removed # {} \/ req[r].cascade_ran) =>
            /\ req[r].conv_deleted
            /\ ~req[r].reindexed =>
                   req[r].conversation_id \notin DOMAIN es_conversations

\* A call crashed between its two calls: the conversation document is gone
\* and a message document of the conversation remains; another call ran to
\* its end and removed message documents.
C21_Witness ==
    \E r1, r2 \in Deletes :
        /\ req[r1].pc = "crashed" /\ req[r1].conv_deleted
        /\ ~req[r1].conv_absent /\ ~req[r1].cascade_ran
        /\ req[r2].pc = "done" /\ req[r2].msgs_removed # {}
        /\ ~req[r2].reindexed
        /\ \E j \in DOMAIN es_messages :
               es_messages[j].conversation_id = req[r1].conversation_id

\* C22: delete_conversation returns True iff its delete of the conversation
\* document and its delete_by_query both completed without error; an absent
\* conversation document (404) is no error and the delete_by_query is still
\* issued; when the first call fails otherwise, the delete_by_query is not
\* issued, no message document is deleted and False is returned.
C22_ReturnValue ==
    \A r \in Deletes :
        req[r].pc = "done" =>
            /\ req[r].value # None
            /\ req[r].value = Some(TRUE) <=>
                   (req[r].conv_deleted /\ req[r].cascade_ran
                        /\ req[r].raised = {})
            /\ (req[r].conv_absent /\ "delete" \notin req[r].raised) =>
                   /\ req[r].conv_deleted
                   /\ req[r].cascade_ran
                          \/ "delete_by_query" \in req[r].raised
            /\ "delete" \in req[r].raised =>
                   /\ ~req[r].cascade_ran
                   /\ req[r].msgs_removed = {}
                   /\ req[r].value = Some(FALSE)

\* One call found no conversation document, removed message documents and
\* returned True; another failed in its first call while a message
\* document of the conversation was searchable.
C22_Witness ==
    \E r1, r2 \in Deletes :
        /\ req[r1].pc = "done" /\ req[r1].conv_absent
        /\ req[r1].msgs_removed # {} /\ req[r1].value = Some(TRUE)
        /\ req[r2].pc = "done" /\ "delete" \in req[r2].raised
        /\ \E j \in DOMAIN searchable_messages \cap DOMAIN es_messages :
               /\ searchable_messages[j].conversation_id
                      = req[r2].conversation_id
               /\ es_messages[j] = searchable_messages[j]

\* The commit of a message with this id has completed: ids are given by the
\* primary store at commit, in sequence from 1.
CommitCompleted(id) == id \in 1..(next_msg_id - 1)

C23_Positions ==
    \A r \in Slots :
        req[r].kind = "chat" =>
            /\ req[r].pc = "index_user" => CommitCompleted(req[r].user_id)
            /\ req[r].pc = "index_assistant" =>
                   CommitCompleted(req[r].assistant_id)
            /\ req[r].pc = "invalidate" =>
                   /\ CommitCompleted(req[r].user_id)
                   /\ CommitCompleted(req[r].assistant_id)
                   /\ req[r].user_id < req[r].assistant_id

C23_IndexStep ==
    \A id \in DOMAIN es_messages' :
        (id \notin DOMAIN es_messages \/ es_messages'[id] # es_messages[id])
            => CommitCompleted(id)

\* C23: in a chat turn, the commit of the user message and the commit of the
\* assistant message each precede the index_message call for that message,
\* both precede invalidate_conversation, and no index_message call is
\* issued for a message whose commit has not completed.
C23_CommitBeforeIndex == []C23_Positions /\ [][C23_IndexStep]_vars

\* A turn is about to invalidate: both its messages are committed and
\* indexed.
C23_Witness ==
    \E r \in Slots :
        /\ req[r].kind = "chat" /\ req[r].pc = "invalidate"
        /\ Persisted(req[r].user_id) /\ Persisted(req[r].assistant_id)
        /\ req[r].user_id \in DOMAIN es_messages
        /\ req[r].assistant_id \in DOMAIN es_messages
        /\ es_messages[req[r].user_id].role = "user"
        /\ es_messages[req[r].assistant_id].role = "assistant"

\* C26: with the index reachable, once a chat turn that created a
\* conversation has answered, the conversation has been passed to
\* index_conversation and has a document in the conversations index.
C26_CreatedConversationIndexed ==
    \A r \in Slots :
        (/\ req[r].kind = "chat"
         /\ req[r].pc = "done" /\ req[r].status = 200
         /\ req[r].created # 0
         /\ ~req[r].es_failed
         /\ req[r].created \in db_conversations)
            => req[r].created \in DOMAIN es_conversations

\* C24: for every batch and every outcome, the pair bulk_index_messages
\* returns sums to len(messages), and its success_count is the number of
\* documents of the batch that were written to the index.
C24_BulkCountsReconcile ==
    ret.op = "bulk_index_messages" =>
        /\ ret.value[1] + ret.value[2] = Len(ret.messages)
        /\ ret.value[1] = ret.written

\* The counts of every outcome sum to the length of the batch.
C24_CountsSum ==
    ret.op = "bulk_index_messages" =>
        ret.value[1] + ret.value[2] = Len(ret.messages)

\* ------------------------------------------------------------------------
\* redis_client.py: LLM response caching.  A text is a sequence of chunks
\* of characters, ":" among them.
\* ------------------------------------------------------------------------
DefaultTtlLlmResponses == 3600

\* hashlib.md5(...).hexdigest(), taken as free of collisions: the digest
\* determines the text.
Md5(text) == <<"md5(">> \o text \o <<")">>

\* _generate_llm_cache_key: combined = f"{prompt}:{context}"
generate_llm_cache_key(prompt, context) == Md5(prompt \o <<":">> \o context)

LlmKey(prompt, context) ==
    <<"llm", ":", "response", ":">> \o generate_llm_cache_key(prompt, context)

cache_llm_response(s, prompt, context, response, ttl, t, ok) ==
    set(s, LlmKey(prompt, context), response, Some(ttl), t, ok)

get_cached_llm_response(s, prompt, context, ok) ==
    get(s, LlmKey(prompt, context), ok)

Prompts == {<<"a">>, <<"a", ":", "b">>}
Contexts == {<<"c">>, <<"b", ":", "c">>}
Responses == {<<"r1">>, <<"r2">>}

\* written: for each (prompt, context), the responses cached for it so far.
CachedFor(prompt, context) ==
    IF <<prompt, context>> \in DOMAIN written
    THEN written[<<prompt, context>>] ELSE {}

CacheLlmResponse ==
    /\ \E p \in Prompts, c \in Contexts, resp \in Responses, ok \in BOOLEAN :
           LET r == cache_llm_response(redis, p, c, resp,
                                       DefaultTtlLlmResponses, now, ok)
           IN  /\ redis' = r.store
               /\ ret' = [op |-> "cache_llm_response", prompt |-> p,
                          context |-> c, value |-> r.value,
                          raised |-> r.raised, failed |-> ~ok]
               /\ written' = Put(written, <<p, c>>,
                                 CachedFor(p, c) \cup {resp})
    /\ kvUnchanged

GetCachedLlmResponse ==
    /\ \E p \in Prompts, c \in Contexts, ok \in BOOLEAN :
           LET r == get_cached_llm_response(redis, p, c, ok)
           IN  /\ redis' = r.store
               /\ ret' = [op |-> "get_cached_llm_response", prompt |-> p,
                          context |-> c, value |-> r.value,
                          raised |-> r.raised, failed |-> ~ok]
    /\ UNCHANGED written
    /\ kvUnchanged

InitLlm == InitRedis /\ InitStores

NextLlm == CacheLlmResponse \/ GetCachedLlmResponse

SpecLlm == InitLlm /\ [][NextLlm]_vars

\* C25: get_cached_llm_response(p, c) returns a response only if
\* cache_llm_response was called before with exactly the pair (p, c) and
\* that response: distinct (prompt, context) pairs share no cache entry.
C25_KeyedByPair ==
    (ret.op = "get_cached_llm_response" /\ ret.value # None) =>
        ret.value[1] \in CachedFor(ret.prompt, ret.context)

\* C27: suggest_conversations with use_case_id supplied returns only titles
\* of searchable conversations of that use case.
C27_TenantScoped ==
    (ret.op = "suggest_conversations" /\ ret.use_case_id # None) =>
        Range(ret.value) \subseteq ret.scoped

\* C28: on every response of rate_limit_middleware for a rate-limited path,
\* 0 <= X-RateLimit-Remaining <= X-RateLimit-Limit, X-RateLimit-Remaining
\* is 0 on a 429, and X-RateLimit-Reset is the number of seconds until the
\* next minute bucket, between 1 and 60.
C28_HeadersConsistent ==
    (ret.op = "rate_limit_middleware" /\ ~ret.exempt) =>
        /\ 0 <= ret.headers.remaining
        /\ ret.headers.remaining <= ret.headers.limit
        /\ ret.status = 429 => ret.headers.remaining = 0
        /\ ret.headers.reset \in 1..WindowSecs
        /\ CurrentMinute(ret.at + ret.headers.reset) = CurrentMinute(ret.at) + 1
        /\ CurrentMinute(ret.at + ret.headers.reset - 1) = CurrentMinute(ret.at)

\* The same without the comparison of Remaining with Limit.
C28_ResetAndFloor ==
    (ret.op = "rate_limit_middleware" /\ ~ret.exempt) =>
        /\ 0 <= ret.headers.remaining
        /\ ret.status = 429 => ret.headers.remaining = 0
        /\ ret.headers.reset \in 1..WindowSecs
        /\ CurrentMinute(ret.at + ret.headers.reset) = CurrentMinute(ret.at) + 1
        /\ CurrentMinute(ret.at + ret.headers.reset - 1) = CurrentMinute(ret.at)

\* ------------------------------------------------------------------------
\* redis_client.py: the cache_result decorator.  A result is one of a few
\* Python values; json.dumps and json.loads are modelled on them.
\* ------------------------------------------------------------------------
DefaultCacheResultTtl == 600

\* None, 0, a list, a tuple, and an object json cannot serialize.
Results == {"None", "0", "[1]", "(1,)", "object()"}

JsonSerializable(result) == result # "object()"

\* json.dumps: a tuple is written as a list.
JsonDumps(result) ==
    CASE result = "None" -> <<"null">>
      [] result = "0" -> <<"0">>
      [] result = "[1]" -> <<"[", "1", "]">>
      [] result = "(1,)" -> <<"[", "1", "]">>

JsonLoadable(text) == text \in {<<"null">>, <<"0">>, <<"[", "1", "]">>}

\* json.loads
JsonLoads(text) ==
    CASE text = <<"null">> -> "None"
      [] text = <<"0">> -> "0"
      [] text = <<"[", "1", "]">> -> "[1]"

MemoArgs == {<<"(1,)">>, <<"(2,)">>}

\* cache_key = f"{key_prefix}:{func.__name__}:{str(args)}:{str(kwargs)}"
\* for a function f decorated with the default key_prefix and called
\* without keyword arguments; the key is "cache:" and the digest.
MemoKey(args) ==
    <<"cache", ":">>
        \o Md5(<<"func", ":", "f", ":">> \o args \o <<":", "{}">>)

\* A wrapper that looks nothing up.
WrapperUncached(s, args, result, ttl, t, get_ok, set_ok) ==
    [store |-> IF JsonSerializable(result)
               THEN set(s, MemoKey(args), JsonDumps(result), Some(ttl), t,
                        set_ok).store
               ELSE s,
     value |-> result, executed |-> 1]

\* sync_wrapper / async_wrapper: result is what func returns if it is
\* executed.
sync_wrapper(s, args, result, ttl, t, get_ok, set_ok) ==
    LET cached == get(s, MemoKey(args), get_ok).value
    IN  IF cached # None /\ cached[1] # <<>> /\ JsonLoadable(cached[1])
        THEN [store |-> s, value |-> JsonLoads(cached[1]), executed |-> 0]
        ELSE [store |-> IF JsonSerializable(result)
                        THEN set(s, MemoKey(args), JsonDumps(result),
                                 Some(ttl), t, set_ok).store
                        ELSE s,
              value |-> result, executed |-> 1]

CallCached ==
    /\ \E args \in MemoArgs, result \in Results, get_ok \in BOOLEAN,
          set_ok \in BOOLEAN :
           LET r == sync_wrapper(redis, args, result, DefaultCacheResultTtl,
                                 now, get_ok, set_ok)
           IN  /\ redis' = r.store
               /\ ret' = [op |-> "cache_result", args |-> args,
                          before |-> RedisGET(redis, MemoKey(args)),
                          get_ok |-> get_ok, set_ok |-> set_ok,
                          result |-> result, value |-> r.value,
                          executed |-> r.executed]
    /\ UNCHANGED written
    /\ kvUnchanged

\* Another caller of the client writes under the key of an entry.
ForeignValues == {<<"garbage">>, <<>>}

SetMemoKey ==
    /\ \E args \in MemoArgs, v \in ForeignValues :
           /\ redis' = set(redis, MemoKey(args), v, None, now, TRUE).store
           /\ ret' = [op |-> "set", key |-> MemoKey(args)]
    /\ UNCHANGED written
    /\ kvUnchanged

InitMemo == InitRedis /\ InitStores

NextMemo == CallCached \/ SetMemoKey \/ TickCache

SpecMemo == InitMemo /\ [][NextMemo]_vars

\* The call found a live entry it could read.
MemoHit ==
    /\ ret.get_ok
    /\ ret.before # None
    /\ JsonLoadable(ret.before[1])

\* C29: a call of a function wrapped with cache_result that finds a live
\* entry returns the stored value and does not invoke the function; on a
\* miss, or when the store or the serialization fails, the function is
\* invoked exactly once and its result is returned unchanged.
C29_MemoizedOnce ==
    ret.op = "cache_result" =>
        /\ MemoHit => /\ ret.executed = 0
                      /\ ret.value = JsonLoads(ret.before[1])
        /\ ~MemoHit => /\ ret.executed = 1
                       /\ ret.value = ret.result

\* A call returned the list stored by an earlier call of the same
\* arguments without invoking the function, which would have returned
\* something else.
C29_Witness ==
    /\ ret.op = "cache_result"
    /\ MemoHit
    /\ ret.executed = 0
    /\ ret.before = Some(JsonDumps("(1,)"))
    /\ ret.value = "[1]"
    /\ ret.result = "None"
    /\ redis[MemoKey(ret.args)].exp = DefaultCacheResultTtl

\* ------------------------------------------------------------------------
\* check_rate_limit for several (identity, endpoint) pairs, beside entries
\* of the other key families.  Identities are what request.client.host
\* gives (an IPv4 or IPv6 address), endpoints what request.url.path gives.
\* ------------------------------------------------------------------------
WindowRpm == 1
WindowBurst == 0

WindowClients == {<<"10.0.0.1">>, <<":", ":", "1">>}
WindowPaths == {<<"/chat">>, <<"/chat", ":", "1">>}
WindowPairs == WindowClients \X WindowPaths

\* One key of each other family: conv:, llm: and cache:.
OtherKeys ==
    {ConvKey(1), LlmKey(<<"a">>, <<"c">>), MemoKey(<<"(1,)">>)}

\* The store is reachable, or it is not when the call begins.
WindowFailPoints == {"none", "incr"}

windowFrame == UNCHANGED <<now, rate_limit_rpm, rate_limit_burst,
                           ttl_conversations, written, invalidated, chatVars>>

CheckRateLimit ==
    /\ \E c \in WindowClients, p \in WindowPaths, f \in WindowFailPoints :
           LET key == RateKey(c, p, CurrentMinute(now))
               r == check_rate_limit(redis, c, p, now, rate_limit_rpm,
                                     rate_limit_burst, f)
           IN  /\ CountOf(redis, key) <= rate_limit_rpm + rate_limit_burst
               /\ redis' = r.store
               /\ window' = [window EXCEPT ![<<c, p>>] =
                                NoteCall(@, CurrentMinute(now), r.failed)]
               /\ ret' = [op |-> "check_rate_limit", client |-> c,
                          path |-> p, at |-> now, key |-> key,
                          before |-> redis, after |-> r.store,
                          allowed |-> r.value.allowed,
                          remaining |-> r.value.remaining,
                          count |-> r.count, failed |-> r.failed]
    /\ windowFrame

RECURSIVE SetAll(_, _, _)
SetAll(s, keys, t) ==
    IF keys = {} THEN s
    ELSE LET k == CHOOSE x \in keys : TRUE
         IN  SetAll(set(s, k, <<"v1">>, Some(DefaultTtlConversations), t,
                        TRUE).store,
                    keys \ {k}, t)

\* cache_conversation, cache_llm_response and a cache_result wrapper write
\* their entries.
WriteOther ==
    /\ redis' = SetAll(redis, OtherKeys, now)
    /\ UNCHANGED <<ret, window>>
    /\ windowFrame

TickWindow == Tick(WindowSecs, WindowSecs)

InitWindows ==
    /\ now = 0
    /\ redis = <<>>
    /\ rate_limit_rpm = WindowRpm
    /\ rate_limit_burst = WindowBurst
    /\ ttl_conversations = DefaultTtlConversations
    /\ ret = [op |-> "init"]
    /\ window = [p \in WindowPairs |->
                    [minute |-> 0, calls |-> 0, clean |-> TRUE]]
    /\ written = <<>>
    /\ invalidated = {}
    /\ InitStores

NextWindows == CheckRateLimit \/ WriteOther \/ TickWindow

SpecWindows == InitWindows /\ [][NextWindows]_vars

\* The keys a call left as they were.
Untouched(before, after, k) ==
    IF k \in DOMAIN before
    THEN k \in DOMAIN after /\ after[k] = before[k]
    ELSE k \notin DOMAIN after

\* C30: a check_rate_limit call changes only the counter of its own
\* (identity, endpoint, minute); every other pair's counter and every
\* conv:, llm: and cache: entry stay as they were, and the count the call
\* decides on is the number of calls of its own pair in the minute,
\* whatever the traffic of other identities and to other endpoints.
C30_WindowsIndependent ==
    ret.op = "check_rate_limit" =>
        /\ \A k \in (DOMAIN ret.before \cup DOMAIN ret.after) \ {ret.key} :
               Untouched(ret.before, ret.after, k)
        /\ \A k \in OtherKeys : Untouched(ret.before, ret.after, k)
        /\ \A q \in WindowPairs, m \in 0..CurrentMinute(WindowSecs) :
               (q # <<ret.client, ret.path>> \/ m # CurrentMinute(ret.at)) =>
                   Untouched(ret.before, ret.after, RateKey(q[1], q[2], m))
        /\ LET w == window[<<ret.client, ret.path>>]
           IN  (w.clean /\ w.minute = CurrentMinute(ret.at)) =>
                   /\ ret.count = Some(w.calls)
                   /\ ret.allowed <=> w.calls <= Limit

\* A first call of one pair is allowed while another identity on the same
\* endpoint and the same identity on another endpoint are over the limit,
\* and an entry of each other family is in the store.
C30_Witness ==
    /\ ret.op = "check_rate_limit" /\ ~ret.failed
    /\ ret.allowed /\ ret.count = Some(1)
    /\ OtherKeys \subseteq DOMAIN ret.before
    /\ \E c \in WindowClients \ {ret.client}, p \in WindowPaths \ {ret.path} :
           /\ CountOf(ret.after, RateKey(c, ret.path, CurrentMinute(ret.at)))
                  > Limit
           /\ CountOf(ret.after, RateKey(ret.client, p, CurrentMinute(ret.at)))
                  > Limit

\* ------------------------------------------------------------------------
\* The whole system
\* ------------------------------------------------------------------------
Init == InitRedis /\ InitStores

Next ==
    \/ NextRate \/ NextInfo \/ NextConcurrent
    \/ NextKv \/ NextCache \/ NextChat \/ NextBulk
    \/ NextIndex \/ NextSearch \/ NextTitles \/ NextDegraded
    \/ NextDelete \/ NextLlm \/ NextMemo \/ NextWindows

Spec == Init /\ [][Next]_vars

=============================================================================
